---- MODULE Spec2Model ----
(***************************************************************************)
(* Model of asnake.py: the GameState / Snake objects, the Observer         *)
(* (observe_state_changes) and the Transition (advance_game).              *)
(*                                                                         *)
(* Python objects live in an explicit heap, because the code relies on     *)
(* which objects are copied and which are shared: a GameState refers to a  *)
(* bytearray, to a dict of Snake objects and to two distinguished snakes.  *)
(* A deque is owned by exactly one Snake (Snake.copy copies it, the        *)
(* Observer replaces it), so it is kept by value inside the Snake record.  *)
(***************************************************************************)
EXTENDS Integers, Sequences, FiniteSets, TLC

VARIABLES heap, old_state, game_state, world, server, last, pc, depth, ticks, search, answer

vars == <<heap, old_state, game_state, world, server, last, pc, depth, ticks, search, answer>>

----------------------------------------------------------------------------
(* Bounds of the model *)

\* world.SIZE_X and world.SIZE_Y of the worlds explored
SizeX == 4
SizeY == 3
\* number of nested advance_game calls below one root state
MaxDepth == 2
\* number of frames the game server plays
MaxTicks == 2
\* deadline checks of a search that find time left, at most
MaxCalls == 100
\* turns of the loop of iterative_search_move_space
MaxRounds == 12

----------------------------------------------------------------------------
(* Constants of asnake.py *)

None == 0

XY(x, y) == <<x, y>>

DIR_UP == XY(0, -1)
DIR_RIGHT == XY(1, 0)
DIR_DOWN == XY(0, 1)
DIR_LEFT == XY(-1, 0)

Directions == <<DIR_UP, DIR_RIGHT, DIR_DOWN, DIR_LEFT>>

WORLD_VOID == 0
WORLD_TAIL == 10
WORLD_BODY == 11
WORLD_HEAD == 12
WORLD_DEAD_TAIL == 13
WORLD_DEAD_BODY == 14
WORLD_DEAD_HEAD == 15
WORLD_STONE == 16

KillPoints == 1000

\* GAME_CHARS: glyph -> kind
GAME_CHARS ==
  [ch \in {" ", "1", "2", "3", "4", "5", "6", "7", "8", "9", "$", "*", "@", "%", "+", "x", "#"} |->
     CASE ch = " " -> WORLD_VOID
       [] ch = "1" -> 1 [] ch = "2" -> 2 [] ch = "3" -> 3
       [] ch = "4" -> 4 [] ch = "5" -> 5 [] ch = "6" -> 6
       [] ch = "7" -> 7 [] ch = "8" -> 8 [] ch = "9" -> 9
       [] ch = "$" -> WORLD_TAIL
       [] ch = "*" -> WORLD_BODY
       [] ch = "@" -> WORLD_HEAD
       [] ch = "%" -> WORLD_DEAD_TAIL
       [] ch = "+" -> WORLD_DEAD_BODY
       [] ch = "x" -> WORLD_DEAD_HEAD
       [] ch = "#" -> WORLD_STONE]

\* neighbours(position): up, right, bottom, left
neighbours(position) ==
  << XY(position[1], position[2] - 1),
     XY(position[1] + 1, position[2]),
     XY(position[1], position[2] + 1),
     XY(position[1] - 1, position[2]) >>

IsNeighbour(p, q) == \E i \in 1..4 : neighbours(q)[i] = p

----------------------------------------------------------------------------
(* Cell encoding *)

RECURSIVE BitOr(_, _)
BitOr(a, b) ==
  IF a = 0 THEN b
  ELSE IF b = 0 THEN a
  ELSE (IF (a % 2 = 1) \/ (b % 2 = 1) THEN 1 ELSE 0) + 2 * BitOr(a \div 2, b \div 2)

\* an encoding with four bits for the kind
EncodeNarrow(value) == BitOr(value[1], value[2] * 16)

\* char | (color << 5)
EncodeValue(value) == BitOr(value[1], value[2] * 32)

\* byte & 0x1f, byte >> 5
DecodeValue(byte) == <<byte % 32, byte \div 32>>

----------------------------------------------------------------------------
(* Heap *)

GsRefs == 1..8
DictRefs == 1..8
SnRefs == 1..24
WdRefs == 1..12

EmptyFn == [x \in {} |-> 0]

EmptyHeap == [gs |-> EmptyFn, dict |-> EmptyFn, sn |-> EmptyFn, wd |-> EmptyFn]

MinOf(S) == CHOOSE x \in S : \A y \in S : x <= y

RECURSIVE NthOf(_, _)
NthOf(S, n) == IF n = 1 THEN MinOf(S) ELSE NthOf(S \ {MinOf(S)}, n - 1)

\* the n-th unused reference of a pool
Fresh(pool, used, n) == NthOf(pool \ used, n)

Restrict(f, S) == [x \in S \cap DOMAIN f |-> f[x]]

\* a dict is kept as the sequence of its (key, value) items in insertion order
DictHas(items, key) == \E i \in 1..Len(items) : items[i][1] = key
DictGet(items, key) == items[CHOOSE i \in 1..Len(items) : items[i][1] = key][2]
DictKeys(items) == {items[i][1] : i \in 1..Len(items)}
DictValues(items) == {items[i][2] : i \in 1..Len(items)}

\* what stays allocated when only the GameStates in roots are referenced
Collect(h, roots) ==
  LET gsR == (roots \ {None}) \cap DOMAIN h.gs
      dictR == {h.gs[g].snakes_by_color : g \in gsR}
      snR == UNION {DictValues(h.dict[d]) : d \in dictR}
               \cup ({h.gs[g].my_snake : g \in gsR} \ {None})
               \cup ({h.gs[g].enemy_snake : g \in gsR} \ {None})
      wdR == {h.gs[g].world : g \in gsR}
  IN [gs |-> Restrict(h.gs, gsR), dict |-> Restrict(h.dict, dictR),
      sn |-> Restrict(h.sn, snR), wd |-> Restrict(h.wd, wdR)]

----------------------------------------------------------------------------
(* class Snake *)

\* Snake.__init__ ; length = None is written 0, it is assigned before it is read
Snake(alive, head_pos, tail_pos, color) ==
  [alive |-> alive, head_pos |-> head_pos, tail_pos |-> tail_pos, length |-> None,
   color |-> color, grow_uncertain |-> TRUE, grow |-> 0, score |-> 0,
   head_history |-> <<>>]

\* Snake.direction; the None of a snake without history is the empty tuple
direction(snake) ==
  IF Len(snake.head_history) = 0 THEN <<>>
  ELSE XY(snake.head_pos[1] - snake.head_history[1][1],
          snake.head_pos[2] - snake.head_history[1][2])

\* a copy that starts from the constructor's alive = True
SnakeRevived(snake) == [snake EXCEPT !.alive = TRUE]

\* Snake.copy: a new object with the same field values and a copy of the deque
SnakeCopy(snake) ==
  [alive |-> snake.alive, head_pos |-> snake.head_pos, tail_pos |-> snake.tail_pos,
   length |-> snake.length, color |-> snake.color,
   grow_uncertain |-> snake.grow_uncertain, grow |-> snake.grow,
   score |-> snake.score, head_history |-> snake.head_history]

----------------------------------------------------------------------------
(* class GameState *)

\* world_get: bounds check, stones outside of the play area
world_get(h, g, position) ==
  LET size == h.gs[g].world_size IN
  IF position[1] < 0 \/ position[1] >= size[1] THEN <<WORLD_STONE, 0>>
  ELSE IF position[2] < 0 \/ position[2] >= size[2] THEN <<WORLD_STONE, 0>>
  ELSE DecodeValue(h.wd[h.gs[g].world][position[2] * size[1] + position[1]])

\* world_set: bounds check, writes into the bytearray the state refers to
world_set(h, g, position, value) ==
  LET size == h.gs[g].world_size IN
  IF position[1] < 0 \/ position[1] >= size[1] THEN h
  ELSE IF position[2] < 0 \/ position[2] >= size[2] THEN h
  ELSE [h EXCEPT !.wd[h.gs[g].world][position[2] * size[1] + position[1]] = EncodeValue(value)]

\* the snake object bound to a color in a state's snakes_by_color
SnakeRef(h, g, color) == DictGet(h.dict[h.gs[g].snakes_by_color], color)

HasSnake(h, g, color) == DictHas(h.dict[h.gs[g].snakes_by_color], color)

\* a dict with the same keys in the same order, bound to the same Snake objects
SharedSnakes(h, items) == [h |-> h, items |-> items]

\* {k: v.copy() for k, v in world.snakes_by_color.items()}
CopySnakes(h, items) ==
  LET ref(i) == Fresh(SnRefs, DOMAIN h.sn, i)
      new == {ref(i) : i \in 1..Len(items)}
      src(r) == items[CHOOSE i \in 1..Len(items) : ref(i) = r][2]
  IN [h |-> [h EXCEPT !.sn = [r \in DOMAIN h.sn \cup new |->
                                 IF r \in new THEN SnakeCopy(h.sn[src(r)]) ELSE h.sn[r]]],
      items |-> [i \in 1..Len(items) |-> <<items[i][1], ref(i)>>]]

\* bytearray(world.world): a new bytearray with the same bytes
SharedWorld(h, w) == [h |-> h, ref |-> w]

CopyWorld(h, w) ==
  LET ref == Fresh(WdRefs, DOMAIN h.wd, 1)
  IN [h |-> [h EXCEPT !.wd = ref :> h.wd[w] @@ h.wd], ref |-> ref]

\* GameState.__init__, isinstance(world, GameState) branch
GameStateCopy(h, state) ==
  LET src == h.gs[state]
      cw == CopyWorld(h, src.world)
      cs == CopySnakes(cw.h, h.dict[src.snakes_by_color])
      d == Fresh(DictRefs, DOMAIN h.dict, 1)
      g == Fresh(GsRefs, DOMAIN h.gs, 1)
      rec == [world_size |-> src.world_size,
              world |-> cw.ref,
              snakes_by_color |-> d,
              my_snake |-> IF src.my_snake # None
                             THEN DictGet(cs.items, h.sn[src.my_snake].color) ELSE None,
              enemy_snake |-> IF src.enemy_snake # None
                             THEN DictGet(cs.items, h.sn[src.enemy_snake].color) ELSE None,
              frame_no |-> src.frame_no]
  IN [h |-> [cs.h EXCEPT !.dict = d :> cs.items @@ cs.h.dict,
                         !.gs = g :> rec @@ cs.h.gs],
      ref |-> g]

\* GameState.__init__, branch for a world of (char, color) pairs, rows [y][x]
GameStateNew(h, cells, world_size, snakes_by_color, frame_no) ==
  LET w == Fresh(WdRefs, DOMAIN h.wd, 1)
      g == Fresh(GsRefs, DOMAIN h.gs, 1)
      bytes == [index \in 0..(world_size[1] * world_size[2] - 1) |->
                  LET cell == cells[(index \div world_size[1]) + 1][(index % world_size[1]) + 1]
                  IN BitOr(GAME_CHARS[cell[1]], cell[2] * 32)]
      rec == [world_size |-> world_size, world |-> w, snakes_by_color |-> snakes_by_color,
              my_snake |-> None, enemy_snake |-> None, frame_no |-> frame_no]
  IN [h |-> [h EXCEPT !.wd = w :> bytes @@ h.wd, !.gs = g :> rec @@ h.gs], ref |-> g]

\* a translation that changes the kind and keeps the color bits
DeadByteColored(byte, dead_color) ==
  IF byte \div 32 = dead_color /\ byte % 32 \in {WORLD_TAIL, WORLD_BODY, WORLD_HEAD}
  THEN byte + (WORLD_DEAD_TAIL - WORLD_TAIL)
  ELSE byte

\* bytes.maketrans + translate for one byte
DeadByte(byte, dead_color) ==
  IF byte = BitOr(WORLD_HEAD, dead_color * 32) THEN WORLD_DEAD_HEAD
  ELSE IF byte = BitOr(WORLD_BODY, dead_color * 32) THEN WORLD_DEAD_BODY
  ELSE IF byte = BitOr(WORLD_TAIL, dead_color * 32) THEN WORLD_DEAD_TAIL
  ELSE byte

\* mark_dead: self.world becomes a new, translated bytearray
mark_dead(h, g, dead_color) ==
  LET old == h.wd[h.gs[g].world]
      w == Fresh(WdRefs, DOMAIN h.wd, 1)
      s == SnakeRef(h, g, dead_color)
  IN [h EXCEPT !.wd = w :> [i \in DOMAIN old |-> DeadByte(old[i], dead_color)] @@ h.wd,
               !.gs[g].world = w,
               !.sn[s].alive = FALSE]

----------------------------------------------------------------------------
(* MyRobotSnake.advance_game *)

\* a decision that no snake grows
GrowsNever(h, s) == [ret |-> FALSE, unc |-> FALSE]

\* should_grow(snake): the value returned (as Python tests it) and whether it
\* was a guess that sets uncertainty
should_grow(h, s) ==
  LET snake == h.sn[s] IN
  IF Len(snake.head_history) # snake.length - 1 THEN [ret |-> TRUE, unc |-> TRUE]
  ELSE IF snake.grow_uncertain THEN [ret |-> TRUE, unc |-> TRUE]
  ELSE [ret |-> snake.grow # 0, unc |-> FALSE]

\* next_snake_heads: (color, position) items in the order of snake_directions
next_snake_heads(h, state, snake_directions) ==
  [i \in 1..Len(snake_directions) |->
     LET color == snake_directions[i][1]
         dir == snake_directions[i][2]
         snake == h.sn[SnakeRef(h, state, color)]
     IN <<color, XY(snake.head_pos[1] + dir[1], snake.head_pos[2] + dir[2])>>]

\* tails = {snake.tail_pos: color ...}: a later snake of the dict replaces an
\* earlier one with the same tail_pos; None when the position is no key
tails(h, state, pos) ==
  LET items == h.dict[h.gs[state].snakes_by_color]
      hits == {i \in 1..Len(items) : h.sn[items[i][2]].tail_pos = pos}
  IN IF hits = {} THEN None
     ELSE items[CHOOSE i \in hits : \A j \in hits : j <= i][1]

\* dependencies.get(color): the color whose tail the snake is about to enter
dependencies(h, state, heads, color) == tails(h, state, DictGet(heads, color))

\* len(next_snake_heads_inv[pos])
next_snake_heads_inv(heads, pos) == Cardinality({i \in 1..Len(heads) : heads[i][2] = pos})

\* sorted(colors, key=lambda color: 1 if color in dependencies else 0), stable
tsorted(colors, dep) ==
  SelectSeq(colors, LAMBDA c : dep[c] = None) \o SelectSeq(colors, LAMBDA c : dep[c] # None)

NoKills == [k \in 0..7 |-> <<>>]

\* one iteration of "for color in tsorted", a: [h, moves, dies, kills, unc]
ResolveColor(a, state, new_state, heads, dep, color) ==
  LET chase == dep[color] # None
      other_snake == SnakeRef(a.h, state, dep[color])
      moves1 == IF chase /\ color = dep[color] THEN a.moves \cup {color} ELSE a.moves
      sg == should_grow(a.h, other_snake)
      unc1 == IF chase THEN a.unc \/ sg.unc ELSE a.unc
      old == world_get(a.h, state, DictGet(heads, color))
      old_char == old[1]
      old_color == old[2]
      new_snake == SnakeRef(a.h, new_state, color)
  IN
  IF chase /\ (sg.ret \/ dep[color] \notin moves1)
  THEN \* snake dies, does not move
       [a EXCEPT !.moves = IF color = dep[color] THEN moves1 \ {color} ELSE moves1,
                 !.kills = IF color = dep[color] THEN a.kills
                           ELSE [a.kills EXCEPT ![a.h.sn[other_snake].color] = Append(@, color)],
                 !.dies = @ \cup {color},
                 !.unc = unc1]
  ELSE IF WORLD_DEAD_TAIL <= old_char /\ old_char <= WORLD_STONE
  THEN [a EXCEPT !.moves = moves1, !.unc = unc1, !.dies = @ \cup {color}]
  ELSE IF WORLD_BODY <= old_char /\ old_char <= WORLD_HEAD
  THEN [a EXCEPT !.moves = moves1, !.unc = unc1, !.dies = @ \cup {color},
                 !.kills = [a.kills EXCEPT ![old_color] = Append(@, color)]]
  ELSE IF next_snake_heads_inv(heads, DictGet(heads, color)) > 1
  THEN \* frontal collision. snake dies, moves, does not get points
       [a EXCEPT !.moves = moves1 \cup {color}, !.unc = unc1, !.dies = @ \cup {color}]
  ELSE IF 1 <= old_char /\ old_char <= 9
  THEN [a EXCEPT !.moves = moves1 \cup {color}, !.unc = unc1,
                 !.h.sn[new_snake].grow = @ + old_char,
                 !.h.sn[new_snake].score = @ + old_char]
  ELSE [a EXCEPT !.moves = moves1 \cup {color}, !.unc = unc1]

RECURSIVE ResolveLoop(_, _, _, _, _, _, _)
ResolveLoop(a, state, new_state, heads, dep, order, i) ==
  IF i > Len(order) THEN a
  ELSE ResolveLoop(ResolveColor(a, state, new_state, heads, dep, order[i]),
                   state, new_state, heads, dep, order, i + 1)

\* "topological sort dependencies", special cased for the two-snake tail cycle
Resolve(h, state, new_state, heads) ==
  LET colors == [i \in 1..Len(heads) |-> heads[i][1]]
      dep == [c \in DictKeys(heads) |-> dependencies(h, state, heads, c)]
      a0 == [h |-> h, moves |-> {}, dies |-> {}, kills |-> NoKills, unc |-> FALSE]
  IN
  IF Len(colors) = 2 /\ dep[colors[1]] = colors[2] /\ dep[colors[2]] = colors[1]
  THEN LET sg0 == should_grow(h, SnakeRef(h, state, colors[1]))
           sg1 == should_grow(h, SnakeRef(h, state, colors[2]))
           \* "or" evaluates should_grow(snake1) only when should_grow(snake0) is false
           unc == sg0.unc \/ (~sg0.ret /\ sg1.unc)
       IN IF sg0.ret \/ sg1.ret
          THEN [a0 EXCEPT !.dies = {colors[1], colors[2]}, !.unc = unc]
          ELSE [a0 EXCEPT !.moves = {colors[1], colors[2]}, !.unc = unc]
  ELSE ResolveLoop(a0, state, new_state, heads, dep, tsorted(colors, dep), 1)

\* a growth decision taken on the copy, after the food was added to its grow
GrowthOfCopy(h, state, new_state, color) == should_grow(h, SnakeRef(h, new_state, color))

\* a push at the wrong end of the deque
PushedBack(head_history, head_pos) == Append(head_history, head_pos)

\* "new_snake.head_history.appendleft(new_snake.head_pos)"
Pushed(head_history, head_pos) == <<head_pos>> \o head_history

\* "should_grow(snake)" with "snake = state.snakes_by_color[color]": the growth
\* decision of the move loop is taken on the snake of the input state
GrowthOf(h, state, new_state, color) == should_grow(h, SnakeRef(h, state, color))

\* a growth that forgets the length
GrownShort(snake) == [snake EXCEPT !.grow = @ - 1]

\* "new_snake.length += 1; new_snake.grow -= 1"
Grown(snake) == [snake EXCEPT !.length = @ + 1, !.grow = @ - 1]

\* a vacation that leaves the record's tail_pos behind
VacatedStale(snake, popped, new_tail) == [snake EXCEPT !.head_history = popped]

\* a vacation that keeps the old tail in head_history
VacatedUnpopped(snake, popped, new_tail) == [snake EXCEPT !.tail_pos = new_tail]

\* "old_tail = new_snake.head_history.pop(); ...; new_snake.tail_pos = new_tail"
Vacated(snake, popped, new_tail) ==
  [snake EXCEPT !.head_history = popped, !.tail_pos = new_tail]

\* body of "for color in moves", m: [h, needs_void, avoids_void, unc, exc]
MoveSnake(m, state, new_state, heads, color) ==
  LET new_snake == SnakeRef(m.h, new_state, color)
      sg == GrowthOf(m.h, state, new_state, color)
      hist == m.h.sn[new_snake].head_history
      \* head_history.pop() and head_history[-1] raise IndexError on an empty deque
      raises == ~sg.ret /\ Len(hist) < 2
      old_tail == hist[Len(hist)]
      popped == SubSeq(hist, 1, Len(hist) - 1)
      new_tail == popped[Len(popped)]
      h1 == IF sg.ret
            THEN [m.h EXCEPT !.sn[new_snake] = Grown(@)]
            ELSE [world_set(m.h, new_state, new_tail, <<WORLD_TAIL, m.h.sn[new_snake].color>>)
                    EXCEPT !.sn[new_snake] = Vacated(@, popped, new_tail)]
      old_head == h1.sn[new_snake].head_pos
      h2 == [h1 EXCEPT !.sn[new_snake].head_history = Pushed(@, old_head)]
      h3 == world_set(h2, new_state, old_head, <<WORLD_BODY, h2.sn[new_snake].color>>)
      h4 == [h3 EXCEPT !.sn[new_snake].head_pos = DictGet(heads, color)]
      h5 == world_set(h4, new_state, DictGet(heads, color), <<WORLD_HEAD, h4.sn[new_snake].color>>)
  IN
  IF raises THEN [m EXCEPT !.exc = "IndexError", !.unc = @ \/ sg.unc]
  ELSE [m EXCEPT !.h = h5,
                 !.needs_void = IF sg.ret THEN @ ELSE @ \cup {old_tail},
                 !.avoids_void = @ \cup {DictGet(heads, color)},
                 !.unc = @ \/ sg.unc]

\* "for color in moves": a set of small ints is iterated in increasing order
RECURSIVE MoveLoop(_, _, _, _, _)
MoveLoop(m, state, new_state, heads, todo) ==
  IF todo = {} \/ m.exc # "" THEN m
  ELSE MoveLoop(MoveSnake(m, state, new_state, heads, MinOf(todo)),
                state, new_state, heads, todo \ {MinOf(todo)})

\* a cleanup that ignores the heads that moved in
VoidsAll(needs_void, avoids_void) == needs_void

\* "for void_pos in needs_void - avoids_void"
VoidsToClean(needs_void, avoids_void) == needs_void \ avoids_void

RECURSIVE Cleanup(_, _, _)
Cleanup(h, new_state, todo) ==
  IF todo = {} THEN h
  ELSE LET void_pos == CHOOSE p \in todo : TRUE
       IN Cleanup(world_set(h, new_state, void_pos, <<WORLD_VOID, 0>>),
                  new_state, todo \ {void_pos})

\* "for color in dies: new_state.mark_dead(color)"
RECURSIVE Repaint(_, _, _)
Repaint(h, new_state, todo) ==
  IF todo = {} THEN h
  ELSE Repaint(mark_dead(h, new_state, MinOf(todo)), new_state, todo \ {MinOf(todo)})

\* a resolution that credits no kill at all
KillsForgotten(kills, dies) == [k \in DOMAIN kills |-> <<>>]

\* a resolution that keeps the kills of the snakes that died
KillsKept(kills, dies) == kills

\* "for color in dies: kills.pop(color, None)"
RemainingKills(kills, dies) == [k \in DOMAIN kills |-> IF k \in dies THEN <<>> ELSE kills[k]]

\* "for killer_color, victims in kills.items(): ... score += len(victims) * 1000"
RECURSIVE Award(_, _, _, _)
Award(r, new_state, kills, todo) ==
  IF todo = {} \/ r.exc # "" THEN r
  ELSE LET killer_color == MinOf(todo)
       IN IF ~HasSnake(r.h, new_state, killer_color)
          THEN [r EXCEPT !.exc = "KeyError"]
          ELSE Award([r EXCEPT !.h.sn[SnakeRef(r.h, new_state, killer_color)].score =
                                   @ + Len(kills[killer_color]) * KillPoints],
                     new_state, kills, todo \ {killer_color})

\* the results of advance_game: the heap after the call, the returned state and
\* uncertainty bit or the exception raised; and the locals moves, dies and kills
\* as they are when the function ends, and the grid of new_state as it is when
\* the repaint of the dead begins
Raised(h, a, unc, exc, kills) ==
  [h |-> h, new_state |-> None, uncertainty |-> unc, exc |-> exc,
   moves |-> a.moves, dies |-> a.dies, kills |-> kills, cleaned |-> <<>>]

\* "return new_state, uncertainty"
Awarded(new_state, a, unc, kills, cleaned, r) ==
  IF r.exc # "" THEN Raised(r.h, a, unc, r.exc, kills)
  ELSE [h |-> r.h, new_state |-> new_state, uncertainty |-> unc, exc |-> "",
        moves |-> a.moves, dies |-> a.dies, kills |-> kills, cleaned |-> cleaned]

\* "Resolve points for killing"
Credited(new_state, a, unc, kills, cleaned, h) ==
  Awarded(new_state, a, unc, kills, cleaned,
          Award([h |-> h, exc |-> ""], new_state, kills,
                {k \in DOMAIN kills : kills[k] # <<>>}))

\* "Repaint dead snakes and mark them as not alive"
Cleaned(new_state, a, unc, h) ==
  Credited(new_state, a, unc, RemainingKills(a.kills, a.dies),
           h.wd[h.gs[new_state].world], Repaint(h, new_state, a.dies))

\* "Cleanup any tails that were not overwritten"
Moved(new_state, a, m) ==
  IF m.exc # "" THEN Raised(m.h, a, m.unc, m.exc, a.kills)
  ELSE Cleaned(new_state, a, m.unc,
               Cleanup(m.h, new_state, VoidsToClean(m.needs_void, m.avoids_void)))

\* "Move snakes"
Resolved(state, new_state, heads, a) ==
  Moved(new_state, a,
        MoveLoop([h |-> a.h, needs_void |-> {}, avoids_void |-> {},
                  unc |-> a.unc, exc |-> ""],
                 state, new_state, heads, a.moves))

\* "new_state = GameState(state); new_state.frame_no += 1" and the resolution
Copied(state, heads, copy) ==
  Resolved(state, copy.ref, heads,
           Resolve([copy.h EXCEPT !.gs[copy.ref].frame_no = @ + 1], state, copy.ref, heads))

\* advance_game(state, snake_directions); snake_directions is the sequence of
\* the (color, direction) items of the dict
advance_game(h, state, snake_directions) ==
  Copied(state, next_snake_heads(h, state, snake_directions), GameStateCopy(h, state))

----------------------------------------------------------------------------
(* GameState.trace_snake_path *)

IsSegment(cell, color) == WORLD_TAIL <= cell[1] /\ cell[1] <= WORLD_HEAD /\ cell[2] = color

\* candidates that include the segment the trace came from
TracePathsBack(h, g, segments, color) ==
  LET current_pos == segments[Len(segments)]
      ok(p) == IsSegment(world_get(h, g, p), color)
  IN SelectSeq(neighbours(current_pos), ok)

\* the candidate positions found around the last segment, in neighbours() order
TracePaths(h, g, segments, color) ==
  LET current_pos == segments[Len(segments)]
      ok(p) == /\ ~(Len(segments) > 1 /\ p = segments[Len(segments) - 1])
               /\ IsSegment(world_get(h, g, p), color)
  IN SelectSeq(neighbours(current_pos), ok)

RECURSIVE TraceLoop(_, _, _, _)
TraceLoop(h, g, segments, color) ==
  LET paths == TracePaths(h, g, segments, color)
  IN IF Len(paths) # 1 THEN segments
     ELSE TraceLoop(h, g, Append(segments, paths[1]), color)

trace_snake_path(h, g, start_pos) ==
  TraceLoop(h, g, <<start_pos>>, world_get(h, g, start_pos)[2])

----------------------------------------------------------------------------
(* MyRobotSnake.observe_state_changes *)

\* positions of a bytearray in the order of the scan loops: index = y * SIZE_X + x
ScanPos(size, index) == XY(index % size[1], index \div size[1])

\* indexes of the cells of one kind and color
CellsOf(bytes, char, color) == {i \in DOMAIN bytes : DecodeValue(bytes[i]) = <<char, color>>}

MaxOf(S) == CHOOSE x \in S : \A y \in S : y <= x

\* tails_by_color / heads_by_color / old_tails_by_color: the last cell scanned wins
HasKind(bytes, char, color) == CellsOf(bytes, char, color) # {}
LastOfKind(bytes, size, char, color) == ScanPos(size, MaxOf(CellsOf(bytes, char, color)))

\* lengths_by_color[color]
lengths_by_color(bytes, color) ==
  Cardinality({i \in DOMAIN bytes : IsSegment(DecodeValue(bytes[i]), color)})

\* the keys of heads_by_color in insertion order (first HEAD cell of each color)
RECURSIVE HeadColors(_, _)
HeadColors(bytes, todo) ==
  IF todo = {} THEN <<>>
  ELSE LET first(c) == MinOf(CellsOf(bytes, WORLD_HEAD, c))
           c == CHOOSE x \in todo : \A y \in todo : first(x) <= first(y)
       IN <<c>> \o HeadColors(bytes, todo \ {c})

\* a decrement without the floor
DecreaseGrowBelow(h, items) ==
  [h EXCEPT !.sn = [r \in DOMAIN h.sn |->
                      IF r \in DictValues(items) THEN [h.sn[r] EXCEPT !.grow = @ - 1]
                      ELSE h.sn[r]]]

\* "for snake in new_state.snakes_by_color.values(): snake.grow = max(0, snake.grow - 1)"
DecreaseGrow(h, items) ==
  [h EXCEPT !.sn = [r \in DOMAIN h.sn |->
                      IF r \in DictValues(items)
                      THEN [h.sn[r] EXCEPT !.grow = IF @ - 1 > 0 THEN @ - 1 ELSE 0]
                      ELSE h.sn[r]]]

\* the variant in which food taken makes the snake grow one less than its value
EatenLessOne(h, prev_state, position) ==
  IF prev_state = None THEN 0
  ELSE LET old_char == world_get(h, prev_state, position)[1]
       IN IF 1 <= old_char /\ old_char <= 9 THEN old_char - 1 ELSE 0

\* "old_char, old_color = old_state.world_get(position)": the food at position
Eaten(h, prev_state, position) ==
  IF prev_state = None THEN 0
  ELSE LET old_char == world_get(h, prev_state, position)[1]
       IN IF 1 <= old_char /\ old_char <= 9 THEN old_char ELSE 0

\* an Observer that does not remember where the head was
HeadSeenUnrecorded(known_snake, position, eaten) ==
  IF IsNeighbour(position, known_snake.head_pos)
  THEN [known_snake EXCEPT !.length = @ + 1,
                           !.grow = @ + eaten,
                           !.score = @ + eaten,
                           !.head_pos = position]
  ELSE [known_snake EXCEPT !.head_pos = position]

\* a known snake, up to "snake.head_pos = position"
HeadSeen(known_snake, position, eaten) ==
  IF IsNeighbour(position, known_snake.head_pos)
  THEN [known_snake EXCEPT !.head_history = <<known_snake.head_pos>> \o @,
                           !.length = @ + 1,
                           !.grow = @ + eaten,
                           !.score = @ + eaten,
                           !.head_pos = position]
  ELSE [known_snake EXCEPT !.head_pos = position]

\* old_tails_by_color.get(color), as the set of its values
OldTails(h, prev_state, color) ==
  IF prev_state = None THEN {}
  ELSE LET old_bytes == h.wd[h.gs[prev_state].world]
       IN IF HasKind(old_bytes, WORLD_TAIL, color)
          THEN {LastOfKind(old_bytes, h.gs[prev_state].world_size, WORLD_TAIL, color)}
          ELSE {}

\* an Observer that does not look at the old tail
TailIgnored(snake, old_tails) == snake

\* "if old_tail_pos is not None and old_tail_pos != snake.tail_pos: ..."
TailSeen(snake, old_tails) ==
  IF old_tails # {} /\ old_tails # {snake.tail_pos}
  THEN [snake EXCEPT !.head_history =
                        IF Len(@) > 0 /\ {@[Len(@)]} = old_tails
                        THEN SubSeq(@, 1, Len(@) - 1) ELSE @,
                     !.grow_uncertain = FALSE]
  ELSE snake

\* an Observer that never traces
Untraced(h, new_state, snake, length, needs_trace) == [snake EXCEPT !.length = length]

\* "snake.length = lengths_by_color[color]" and "if needs_trace: ..."
Retraced(h, new_state, snake, length, needs_trace) ==
  IF needs_trace
  THEN [snake EXCEPT !.length = length,
                     !.head_history = Tail(trace_snake_path(h, new_state, snake.head_pos)),
                     !.grow = 0,
                     !.grow_uncertain = TRUE]
  ELSE [snake EXCEPT !.length = length]

\* "if color in new_state.snakes_by_color": the record s is updated in place;
\* tails_by_color[color] raises KeyError after head_pos was assigned
ObserveKnown(o, prev_state, new_state, color, s, position, bytes, size) ==
  LET seen == HeadSeen(o.h.sn[s], position, Eaten(o.h, prev_state, position))
  IN IF ~HasKind(bytes, WORLD_TAIL, color)
     THEN [h |-> [o.h EXCEPT !.sn[s] = seen], exc |-> "KeyError"]
     ELSE [o EXCEPT !.h.sn[s] =
             Retraced(o.h, new_state,
                      TailSeen([seen EXCEPT !.tail_pos = LastOfKind(bytes, size, WORLD_TAIL, color)],
                               OldTails(o.h, prev_state, color)),
                      lengths_by_color(bytes, color),
                      ~IsNeighbour(position, o.h.sn[s].head_pos))]

\* "else: snake = new_state.snakes_by_color[color] = Snake(True, position, ...)"
ObserveNew(o, prev_state, new_state, color, d, s, position, bytes, size) ==
  IF ~HasKind(bytes, WORLD_TAIL, color) THEN [o EXCEPT !.exc = "KeyError"]
  ELSE [o EXCEPT !.h.sn =
                    s :> Retraced(o.h, new_state,
                                  TailSeen(Snake(TRUE, position,
                                                 LastOfKind(bytes, size, WORLD_TAIL, color), color),
                                           OldTails(o.h, prev_state, color)),
                                  lengths_by_color(bytes, color), TRUE)
                    @@ o.h.sn,
                 !.h.dict[d] = Append(@, <<color, s>>)]

\* body of "for color, position in heads_by_color.items()", o: [h, exc]
ObserveHead(o, prev_state, new_state, color) ==
  LET gs == o.h.gs[new_state]
      bytes == o.h.wd[gs.world]
      items == o.h.dict[gs.snakes_by_color]
  IN IF DictHas(items, color)
     THEN ObserveKnown(o, prev_state, new_state, color, DictGet(items, color),
                       LastOfKind(bytes, gs.world_size, WORLD_HEAD, color),
                       bytes, gs.world_size)
     ELSE ObserveNew(o, prev_state, new_state, color, gs.snakes_by_color,
                     Fresh(SnRefs, DOMAIN o.h.sn, 1),
                     LastOfKind(bytes, gs.world_size, WORLD_HEAD, color),
                     bytes, gs.world_size)

RECURSIVE ObserveHeads(_, _, _, _, _)
ObserveHeads(o, prev_state, new_state, colors, i) ==
  IF i > Len(colors) \/ o.exc # "" THEN o
  ELSE ObserveHeads(ObserveHead(o, prev_state, new_state, colors[i]),
                    prev_state, new_state, colors, i + 1)

\* an Observer that declares no snake dead
MarkedNone(h, new_state) == h

\* "if color not in alive_snake_colors: snake.alive = False"
MarkMissing(h, new_state) ==
  LET gs == h.gs[new_state]
      bytes == h.wd[gs.world]
      items == h.dict[gs.snakes_by_color]
      gone == {items[i][2] : i \in {j \in 1..Len(items) : ~HasKind(bytes, WORLD_TAIL, items[j][1])}}
  IN [h EXCEPT !.sn = [r \in DOMAIN h.sn |->
                         IF r \in gone THEN [h.sn[r] EXCEPT !.alive = FALSE] ELSE h.sn[r]]]

\* binding of my_snake and enemy_snake
BindSnakes(h, new_state, my_color) ==
  LET items == h.dict[h.gs[new_state].snakes_by_color]
      enemy_snakes == SelectSeq(items, LAMBDA it : h.sn[it[2]].color # my_color)
  IN IF ~DictHas(items, my_color) THEN [h |-> h, exc |-> "KeyError"]
     ELSE [h |-> [h EXCEPT !.gs[new_state].my_snake = DictGet(items, my_color),
                           !.gs[new_state].enemy_snake =
                              IF Len(enemy_snakes) > 0 THEN enemy_snakes[1][2] ELSE None],
           exc |-> ""]

\* glyphs GAME_CHARS knows and colors that fit a byte
Encodable(cells, world_size) ==
  \A y \in 1..world_size[2] : \A x \in 1..world_size[1] :
     /\ cells[y][x][1] \in DOMAIN GAME_CHARS
     /\ BitOr(GAME_CHARS[cells[y][x][1]], cells[y][x][2] * 32) < 256

\* "return new_state", or the KeyError of new_state.snakes_by_color[my_color]
Bound(new_state, b) ==
  IF b.exc # "" THEN [h |-> b.h, new_state |-> None, exc |-> b.exc]
  ELSE [h |-> b.h, new_state |-> new_state, exc |-> ""]

\* the end of the heads loop: the snakes without a tail, my_snake and enemy_snake
Observed(new_state, my_color, o) ==
  IF o.exc # "" THEN [h |-> o.h, new_state |-> None, exc |-> o.exc]
  ELSE Bound(new_state, BindSnakes(MarkMissing(o.h, new_state), new_state, my_color))

\* "decrease grow by one", the scan of the grid and the heads loop
Built(prev_state, my_color, d, new) ==
  LET bytes == new.h.wd[new.h.gs[new.ref].world]
  IN Observed(new.ref, my_color,
              ObserveHeads([h |-> DecreaseGrow(new.h, new.h.dict[d]), exc |-> ""],
                           prev_state, new.ref,
                           HeadColors(bytes, {c \in 0..7 : HasKind(bytes, WORLD_HEAD, c)}), 1))

\* an Observer that hands the frame number of the old state on
RebuiltSameFrame(h, prev_state, cells, world_size, my_color, d) ==
  IF prev_state # None
  THEN Built(prev_state, my_color, d,
             GameStateNew(h, cells, world_size, d, h.gs[prev_state].frame_no))
  ELSE Built(prev_state, my_color, d,
             GameStateNew([h EXCEPT !.dict = d :> <<>> @@ h.dict], cells, world_size, d, 0))

\* new_state = GameState(world, XY(world.SIZE_X, world.SIZE_Y), snakes_by_color, frame_no)
\* on the dict of the old state, or on a new empty dict
Rebuilt(h, prev_state, cells, world_size, my_color, d) ==
  IF prev_state # None
  THEN Built(prev_state, my_color, d,
             GameStateNew(h, cells, world_size, d, h.gs[prev_state].frame_no + 1))
  ELSE Built(prev_state, my_color, d,
             GameStateNew([h EXCEPT !.dict = d :> <<>> @@ h.dict], cells, world_size, d, 0))

\* an Observer that works on copies of the records of the old state
ObserveOnCopies(h, prev_state, cells, world_size, my_color) ==
  IF ~Encodable(cells, world_size)
  THEN [h |-> h, new_state |-> None, exc |-> "KeyError"]
  ELSE IF prev_state # None
  THEN LET cs == CopySnakes(h, h.dict[h.gs[prev_state].snakes_by_color])
           d == Fresh(DictRefs, DOMAIN h.dict, 1)
       IN Rebuilt([cs.h EXCEPT !.dict = d :> cs.items @@ cs.h.dict],
                  prev_state, cells, world_size, my_color, d)
  ELSE Rebuilt(h, prev_state, cells, world_size, my_color, Fresh(DictRefs, DOMAIN h.dict, 1))

\* observe_state_changes(prev_state, world, my_color): the heap after the call and
\* the returned state, or the exception raised
observe_state_changes(h, prev_state, cells, world_size, my_color) ==
  IF ~Encodable(cells, world_size)
  THEN \* GAME_CHARS[char] raises KeyError, a byte out of range ValueError
       [h |-> h, new_state |-> None, exc |-> "KeyError"]
  ELSE Rebuilt(h, prev_state, cells, world_size, my_color,
               IF prev_state # None THEN h.gs[prev_state].snakes_by_color
               ELSE Fresh(DictRefs, DOMAIN h.dict, 1))

----------------------------------------------------------------------------
(* Worlds and states the runs start from *)

my_color == 1

WorldSize == XY(SizeX, SizeY)

\* glyph of a kind, the inverse of GAME_CHARS
REVERSE_CHARS(char) == CHOOSE ch \in DOMAIN GAME_CHARS : GAME_CHARS[ch] = char

\* the world of (char, color) pairs, rows [y][x], that shows a state's grid
Snapshot(h, g) ==
  [y \in 1..h.gs[g].world_size[2] |->
     [x \in 1..h.gs[g].world_size[1] |->
        LET cell == world_get(h, g, XY(x - 1, y - 1))
        IN <<REVERSE_CHARS(cell[1]), cell[2]>>]]

\* a snake lying on path (head first) with a complete head_history
SnakeOn(color, path, grow, score) ==
  [alive |-> TRUE, head_pos |-> path[1], tail_pos |-> path[Len(path)], length |-> Len(path),
   color |-> color, grow_uncertain |-> FALSE, grow |-> grow, score |-> score,
   head_history |-> Tail(path)]

\* the cells of a snake: (position, char, color)
SnakeCells(snake, path) ==
  {<<path[i],
     IF snake.alive THEN (IF i = 1 THEN "@" ELSE IF i = Len(path) THEN "$" ELSE "*")
     ELSE (IF i = 1 THEN "x" ELSE IF i = Len(path) THEN "%" ELSE "+"),
     IF snake.alive THEN snake.color ELSE 0>> : i \in 1..Len(path)}

Rows(placed) ==
  [y \in 1..SizeY |->
     [x \in 1..SizeX |->
        IF \E c \in placed : c[1] = XY(x - 1, y - 1)
        THEN LET c == CHOOSE c \in placed : c[1] = XY(x - 1, y - 1) IN <<c[2], c[3]>>
        ELSE <<" ", 0>>]]

PathA1 == <<XY(2, 2), XY(1, 2), XY(0, 2)>>
PathA2 == <<XY(2, 0), XY(1, 0), XY(0, 0)>>
PathB1 == <<XY(2, 0), XY(1, 0), XY(0, 0)>>
PathB2 == <<XY(0, 1), XY(1, 1), XY(2, 1)>>
PathC1 == <<XY(0, 0), XY(1, 0), XY(1, 1), XY(0, 1)>>
PathC2 == <<XY(3, 1), XY(3, 2)>>
PathD1 == <<XY(2, 1), XY(2, 2), XY(1, 2)>>
PathD2 == <<XY(0, 0), XY(1, 0), XY(2, 0)>>
PathE1 == <<XY(2, 1), XY(1, 1), XY(0, 1)>>
PathE2 == <<XY(2, 2), XY(3, 2)>>
PathF1 == <<XY(1, 1), XY(0, 1)>>
PathF2 == <<XY(3, 2), XY(3, 1), XY(3, 0)>>
PathG1 == <<XY(0, 0), XY(1, 0), XY(1, 1), XY(0, 1)>>
PathG2 == <<XY(0, 2), XY(1, 2), XY(2, 2)>>
PathH1 == <<XY(2, 0), XY(1, 0), XY(0, 0)>>
PathH2 == <<XY(0, 1), XY(1, 1), XY(2, 1)>>

Scenarios ==
  << \* two snakes that can meet head on, food next to a head, a stone
     [snakes |-> <<SnakeOn(1, PathA1, 0, 4), SnakeOn(2, PathA2, 0, 0)>>,
      paths |-> <<PathA1, PathA2>>,
      other |-> {<<XY(3, 2), "#", 0>>, <<XY(3, 0), "2", 0>>}],
     \* each head next to the other snake's tail
     [snakes |-> <<SnakeOn(1, PathB1, 0, 0), SnakeOn(2, PathB2, 0, 0)>>,
      paths |-> <<PathB1, PathB2>>,
      other |-> {<<XY(3, 1), "1", 0>>}],
     \* a head next to its own tail, a growing snake of length 2
     [snakes |-> <<SnakeOn(1, PathC1, 0, 0), SnakeOn(2, PathC2, 1, 3)>>,
      paths |-> <<PathC1, PathC2>>,
      other |-> {<<XY(2, 1), "3", 1>>}],
     \* the record and the cells of a snake that died earlier
     [snakes |-> <<SnakeOn(1, PathD1, 2, 0), [SnakeOn(2, PathD2, 0, 5) EXCEPT !.alive = FALSE]>>,
      paths |-> <<PathD1, PathD2>>,
      other |-> {}],
     \* incomplete knowledge: a short head_history, an uncertain growth
     [snakes |-> <<[SnakeOn(1, PathE1, 0, 0) EXCEPT !.head_history = <<XY(1, 1)>>],
                   [SnakeOn(2, PathE2, 0, 0) EXCEPT !.grow_uncertain = TRUE]>>,
      paths |-> <<PathE1, PathE2>>,
      other |-> {<<XY(3, 1), "2", 0>>}],
     \* a snake of length 2 that is not growing
     [snakes |-> <<SnakeOn(1, PathF1, 0, 0), SnakeOn(2, PathF2, 0, 0)>>,
      paths |-> <<PathF1, PathF2>>,
      other |-> {}],
     \* a head next to its own tail, and the other head next to that tail
     [snakes |-> <<SnakeOn(1, PathG1, 0, 4), SnakeOn(2, PathG2, 0, 6)>>,
      paths |-> <<PathG1, PathG2>>,
      other |-> {<<XY(3, 1), "2", 0>>}],
     \* each head next to the other snake's tail: a growing snake, an uncertain one
     [snakes |-> <<SnakeOn(1, PathH1, 2, 2),
                   [SnakeOn(2, PathH2, 0, 3) EXCEPT !.grow_uncertain = TRUE]>>,
      paths |-> <<PathH1, PathH2>>,
      other |-> {}]
  >>

ScenarioWorld(sc) ==
  Rows(sc.other \cup UNION {SnakeCells(sc.snakes[i], sc.paths[i]) : i \in 1..Len(sc.snakes)})

\* GameState(world, world_size, {1: snake1, 2: snake2}, 0) as the tests build it
NewGame(h, sc) ==
  LET ref(i) == Fresh(SnRefs, DOMAIN h.sn, i)
      d == Fresh(DictRefs, DOMAIN h.dict, 1)
      items == [i \in 1..Len(sc.snakes) |-> <<sc.snakes[i].color, ref(i)>>]
      h1 == [h EXCEPT !.sn = [r \in DOMAIN h.sn \cup DictValues(items) |->
                                IF r \in DOMAIN h.sn THEN h.sn[r]
                                ELSE sc.snakes[CHOOSE i \in 1..Len(items) : ref(i) = r]],
                      !.dict = d :> items @@ h.dict]
  IN GameStateNew(h1, ScenarioWorld(sc), WorldSize, d, 0)

----------------------------------------------------------------------------
(* State of the runs *)

\* the value of a state: its bytes, its snake records in dict order, its fields
View(h, g) ==
  IF g = None THEN [frame_no |-> -1, world |-> <<>>, snakes |-> <<>>,
                    my_snake |-> None, enemy_snake |-> None]
  ELSE LET items == h.dict[h.gs[g].snakes_by_color]
       IN [frame_no |-> h.gs[g].frame_no,
           world |-> h.wd[h.gs[g].world],
           snakes |-> [i \in 1..Len(items) |-> h.sn[items[i][2]]],
           my_snake |-> h.gs[g].my_snake,
           enemy_snake |-> h.gs[g].enemy_snake]

NoCall == [op |-> "", state |-> None, pre |-> View(EmptyHeap, None), new_state |-> None,
           uncertainty |-> FALSE, exc |-> "", directions |-> <<>>,
           moves |-> {}, dies |-> {}, kills |-> NoKills, cleaned |-> <<>>]

Roots(c) == {old_state, game_state, server, c.state, c.new_state}

\* the states advance_game may be applied to next: the root, or the state the
\* last call returned when the search would recurse into it
Nodes ==
  IF depth = 0 THEN {game_state}
  ELSE IF last.op = "advance_game" /\ last.exc = "" /\ ~last.uncertainty /\ depth < MaxDepth
  THEN {last.new_state}
  ELSE {}

LiveColors(h, g) ==
  LET items == h.dict[h.gs[g].snakes_by_color]
  IN {items[i][1] : i \in {j \in 1..Len(items) : h.sn[items[j][2]].alive}}

\* every dict {color: direction} over one or two live snakes, in every key order
AllDirections(h, g) ==
  {<<<<c, Directions[i]>>>> : c \in LiveColors(h, g), i \in 1..4}
  \cup {<<<<p[1], Directions[i]>>, <<p[2], Directions[j]>>>> :
          p \in {q \in LiveColors(h, g) \X LiveColors(h, g) : q[1] # q[2]},
          i \in 1..4, j \in 1..4}

Backwards(snake, move) ==
  /\ direction(snake) # <<>>
  /\ move[1] = -direction(snake)[1]
  /\ move[2] = -direction(snake)[2]

\* the dicts search_move_space passes: my move and, for a live enemy, its move
SearchDirections(h, g) ==
  LET me == h.sn[h.gs[g].my_snake]
      enemy == h.sn[h.gs[g].enemy_snake]
      mine == {i \in 1..4 : ~Backwards(me, Directions[i])}
  IN IF ~me.alive THEN {}
     ELSE IF h.gs[g].enemy_snake # None /\ enemy.alive
     THEN {<<<<me.color, Directions[i]>>, <<enemy.color, Directions[j]>>>> :
             i \in mine, j \in {k \in 1..4 : ~Backwards(enemy, Directions[k])}}
     ELSE {<<<<me.color, Directions[i]>>>> : i \in mine}

\* the dict of a frame of the game: every live snake moves
ServerDirections(h, g) ==
  LET live == LiveColors(h, g)
  IN IF live = {} THEN {<<>>}
     ELSE IF Cardinality(live) = 1
     THEN {<<<<c, Directions[i]>>>> : c \in live, i \in 1..4}
     ELSE {<<<<MinOf(live), Directions[i]>>, <<MaxOf(live), Directions[j]>>>> :
             i \in 1..4, j \in 1..4}

----------------------------------------------------------------------------
(* MyRobotSnake.bfs_food_and_partitions *)

Gcd(a, b) == CHOOSE d \in 1..a : a % d = 0 /\ b % d = 0 /\ \A e \in (d + 1)..a : ~(a % e = 0 /\ b % e = 0)
\* the least common multiple of acc and of the numbers up to n
RECURSIVE Lcm(_, _)
Lcm(acc, n) == IF n <= 1 THEN acc ELSE Lcm((acc \div Gcd(acc, n)) * n, n - 1)

\* food_score is a sum of food_value / distance; it is kept as that sum times
\* FoodScale, a multiple of every distance
FoodScale == Lcm(1, SizeX * SizeY - 2)

\* find(index): the root of the index, which becomes the parent of the index
RECURSIVE FindRoot(_, _)
FindRoot(partition_index, index) ==
  IF partition_index[index] = index THEN index
  ELSE FindRoot(partition_index, partition_index[index])

find(partition_index, index) ==
  [partition_index EXCEPT ![index] = FindRoot(partition_index, index)]

\* a union that joins nothing
Disjoint(partition_index, index1, index2) == partition_index

\* union(index1, index2)
union(partition_index, index1, index2) ==
  LET p == find(find(partition_index, index1), index2)
  IN IF p[index1] # p[index2] THEN [p EXCEPT ![p[index2]] = p[index1]] ELSE p

\* "char < WORLD_TAIL": not occupied
Unoccupied(h, state, position) == world_get(h, state, position)[1] < WORLD_TAIL

\* the initial positions: the reachable neighbours of my head, in the order
\* up, right, down, left; an initial_index is the place in this sequence
initial_positions(h, state) ==
  SelectSeq(neighbours(h.sn[h.gs[state].my_snake].head_pos),
            LAMBDA n : Unoccupied(h, state, n))

\* the state of the BFS before the loop
BfsStart(h, state, initial) ==
  [positions_to_visit |-> [i \in 1..Len(initial) |->
                             <<initial[i], 1, world_get(h, state, initial[i])[1], i>>],
   enqueued_positions |-> [p \in {initial[i] : i \in 1..Len(initial)} |->
                             CHOOSE i \in 1..Len(initial) : initial[i] = p],
   visited_positions |-> {},
   food_score |-> [i \in 1..Len(initial) |-> 0],
   reachable_node_count |-> [i \in 1..Len(initial) |-> 0],
   partition_index |-> [i \in 1..Len(initial) |-> i],
   fully_explored_distance |-> 0]

\* "for neighbour in (...)": one neighbour of the position taken from the queue
BfsNeighbour(h, state, b, neighbour, distance, initial_index) ==
  IF neighbour \in DOMAIN b.enqueued_positions
  THEN [b EXCEPT !.partition_index = union(@, initial_index, b.enqueued_positions[neighbour])]
  ELSE IF Unoccupied(h, state, neighbour)
  THEN [b EXCEPT !.positions_to_visit =
                    Append(@, <<neighbour, distance + 1, world_get(h, state, neighbour)[1],
                                initial_index>>),
                 !.enqueued_positions = neighbour :> initial_index @@ @]
  ELSE b

RECURSIVE BfsNeighbours(_, _, _, _, _, _, _)
BfsNeighbours(h, state, b, around, distance, initial_index, k) ==
  IF k > Len(around) THEN b
  ELSE BfsNeighbours(h, state,
                     BfsNeighbour(h, state, b, around[k], distance, initial_index),
                     around, distance, initial_index, k + 1)

\* the body of the while loop for the tuple taken from the left of the queue
BfsVisit(h, state, b, item) ==
  IF item[1] \in b.visited_positions THEN b
  ELSE [BfsNeighbours(h, state,
                      [b EXCEPT !.fully_explored_distance = item[2] - 1,
                                !.reachable_node_count[item[4]] = @ + 1,
                                !.food_score[item[4]] = @ + (item[3] * FoodScale) \div item[2]],
                      neighbours(item[1]), item[2], item[4], 1)
          EXCEPT !.visited_positions = @ \cup {item[1]}]

\* "while positions_to_visit and (deadline is None or time.monotonic() < deadline)":
\* the clock passes the deadline after some number of turns of the loop
RECURSIVE BfsLoop(_, _, _, _)
BfsLoop(h, state, b, turns) ==
  IF b.positions_to_visit = <<>> \/ turns = 0 THEN b
  ELSE BfsLoop(h, state,
               BfsVisit(h, state, [b EXCEPT !.positions_to_visit = Tail(@)],
                        b.positions_to_visit[1]),
               turns - 1)

\* merged_reachable_node_count[partition]
MergedCount(b, partition) ==
  LET members == {i \in DOMAIN b.partition_index : FindRoot(b.partition_index, i) = partition}
      RECURSIVE Sum(_)
      Sum(S) == IF S = {} THEN 0
                ELSE LET i == CHOOSE x \in S : TRUE
                     IN b.reachable_node_count[i] + Sum(S \ {i})
  IN Sum(members)

\* BFSResult(position_stats, fully_explored_distance)
BfsResult(initial, b) ==
  [position_stats |->
     [i \in 1..Len(initial) |->
        [position |-> initial[i],
         partition_size |-> MergedCount(b, FindRoot(b.partition_index, i)),
         food_score |-> b.food_score[i]]],
   fully_explored_distance |-> b.fully_explored_distance]

\* bfs_food_and_partitions(state, deadline), the deadline met after `turns` turns
bfs_food_and_partitions(h, state, turns) ==
  BfsResult(initial_positions(h, state),
            BfsLoop(h, state, BfsStart(h, state, initial_positions(h, state)), turns))

----------------------------------------------------------------------------
(* MyRobotSnake.heuristic *)

\* "The game is limited to 8192 frames"
GameFrames == 8192

\* the None of a move, of a score and of a bfs_branch
NoMove == <<>>
NoScore == <<>>
NoBranch == [position |-> <<>>, partition_size |-> 0, food_score |-> 0]

\* BFSPosition(position, partition_size, food_score)
BFSPosition(position, partition_size, food_score) ==
  [position |-> position, partition_size |-> partition_size, food_score |-> food_score]

\* the comparison of two tuples of numbers of one length
RECURSIVE TupleLess(_, _)
TupleLess(a, b) ==
  IF a = <<>> THEN FALSE
  ELSE IF a[1] # b[1] THEN a[1] < b[1]
  ELSE TupleLess(Tail(a), Tail(b))

\* the part of the tuple that follows game_result and liveness
HeuristicTuple(game_result, liveness, my_length, score, bfs, bfs_branch, level) ==
  << game_result, liveness,
     IF bfs.fully_explored_distance >= level
     THEN (IF bfs_branch.partition_size < my_length THEN -1 ELSE 0)
     ELSE 0,
     score, bfs_branch.food_score, bfs_branch.partition_size,
     IF game_result < 0 \/ liveness < 0 THEN level ELSE -level >>

\* game_result and liveness from who lives and the two scores
Judged(me_lives, enemy_lives, my_score, enemy_score) ==
  IF me_lives /\ enemy_lives THEN <<0, 0>>
  ELSE IF me_lives THEN <<IF my_score > enemy_score THEN 1 ELSE 0, 1>>
  ELSE IF enemy_lives THEN <<IF my_score < enemy_score THEN -1 ELSE 0, -1>>
  ELSE <<IF my_score > enemy_score THEN 1 ELSE IF my_score < enemy_score THEN -1 ELSE 0, 0>>

\* "if state.frame_no > 8192: me_lives = False; enemy_lives = False"
Limited(frame_no, lives) == IF frame_no > GameFrames THEN FALSE ELSE lives

\* heuristic(state, bfs, bfs_branch, depth): larger values are better for my_snake
heuristic(h, state, bfs, bfs_branch, level) ==
  LET gs == h.gs[state]
      me_lives == gs.my_snake # None /\ h.sn[gs.my_snake].alive
      my_length == IF gs.my_snake # None THEN h.sn[gs.my_snake].length ELSE 0
      enemy_lives == gs.enemy_snake # None /\ h.sn[gs.enemy_snake].alive
      my_score == IF gs.my_snake = None THEN 0 ELSE h.sn[gs.my_snake].score
      enemy_score == IF gs.enemy_snake = None THEN 0 ELSE h.sn[gs.enemy_snake].score
      judged == Judged(Limited(gs.frame_no, me_lives), Limited(gs.frame_no, enemy_lives),
                       my_score, enemy_score)
  IN HeuristicTuple(judged[1], judged[2], my_length, my_score - enemy_score, bfs,
                    IF bfs_branch = NoBranch THEN BFSPosition(XY(0, 0), 0, 0) ELSE bfs_branch,
                    level)

----------------------------------------------------------------------------
(* MyRobotSnake.search_move_space and iterative_search_move_space *)

\* what a search carries along: the advance_game calls made (explored_states),
\* the deadline checks that will still find time left (clock), the checks made,
\* the exception that is unwinding the recursion, a log of the advance_game
\* calls and a log of the states the heuristic judged; a negative clock never
\* runs out ("deadline is None")
NewRun(clock) ==
  [explored_states |-> 0, clock |-> clock, checks |-> 0, stop |-> "", log |-> <<>>,
   judged |-> <<>>]

\* "for branch in bfs.position_stats: if branch.position == next_head_pos ... else"
BranchOf(bfs, next_head_pos) ==
  LET found == SelectSeq(bfs.position_stats, LAMBDA branch : branch.position = next_head_pos)
  IN IF Len(found) > 0 THEN found[1] ELSE BFSPosition(next_head_pos, 0, 0)

move_bfs_branch(h, state, bfs, bfs_branch, my_move) ==
  IF bfs_branch # NoBranch THEN bfs_branch
  ELSE BranchOf(bfs, XY(h.sn[h.gs[state].my_snake].head_pos[1] + my_move[1],
                        h.sn[h.gs[state].my_snake].head_pos[2] + my_move[2]))

\* "if game_state.enemy_snake and game_state.enemy_snake.alive"
EnemyLives(h, state) ==
  h.gs[state].enemy_snake # None /\ h.sn[h.gs[state].enemy_snake].alive

RECURSIVE search_move_space(_, _, _, _, _, _, _, _)
RECURSIVE EnemyMoves(_, _, _, _, _, _, _, _, _, _)
RECURSIVE MyMoves(_, _, _, _, _, _, _, _, _)

\* a call of the heuristic: its value, and the state it judged in the log
Judge(h, run, state, bfs, bfs_branch, level) ==
  [score |-> heuristic(h, state, bfs, bfs_branch, level), move |-> NoMove,
   run |-> [run EXCEPT !.judged =
              Append(@, [me_lives |-> h.sn[h.gs[state].my_snake].alive,
                         enemy_lives |-> EnemyLives(h, state),
                         my_score |-> h.sn[h.gs[state].my_snake].score,
                         enemy_score |-> IF h.gs[state].enemy_snake = None THEN 0
                                         ELSE h.sn[h.gs[state].enemy_snake].score,
                         frame_no |-> h.gs[state].frame_no,
                         score |-> heuristic(h, state, bfs, bfs_branch, level)])]]

\* an advance_game call in the log: the moves from the root, what it returned
Logged(run, path, r) ==
  [run EXCEPT !.log = Append(@, [path |-> path, uncertainty |-> r.uncertainty])]

\* a search that goes on below an uncertain state
ScoredDeeper(run, level, max_depth, branch, bfs, path, r) ==
  IF r.exc # "" THEN [score |-> NoScore, move |-> NoMove, run |-> [run EXCEPT !.stop = r.exc]]
  ELSE search_move_space(r.h, Logged(run, path, r), level + 1, max_depth, r.new_state,
                         branch, bfs, path)

\* the score of the state advance_game returned: the heuristic when the call
\* was uncertain, the search one level deeper otherwise
Scored(run, level, max_depth, branch, bfs, path, r) ==
  IF r.exc # "" THEN [score |-> NoScore, move |-> NoMove, run |-> [run EXCEPT !.stop = r.exc]]
  ELSE IF r.uncertainty
  THEN Judge(r.h, Logged(run, path, r), r.new_state, bfs, branch, level)
  ELSE search_move_space(r.h, Logged(run, path, r), level + 1, max_depth, r.new_state,
                         branch, bfs, path)

\* the deadline check, "explored_states += 1" and the advance_game call
Explored(h, run, level, max_depth, state, snake_directions, branch, bfs, path) ==
  IF run.clock = 0
  THEN [score |-> NoScore, move |-> NoMove,
        run |-> [run EXCEPT !.checks = @ + 1, !.stop = "SearchTimedOut"]]
  ELSE Scored([run EXCEPT !.checks = @ + 1, !.clock = @ - 1, !.explored_states = @ + 1],
              level, max_depth, branch, bfs, Append(path, snake_directions),
              advance_game(h, state, snake_directions))

\* a search that answers for the enemy with the last move tried
WorseLast(w, enemy_move, s) ==
  IF s.run.stop # "" THEN [w EXCEPT !.run = s.run]
  ELSE [worst_enemy_move |-> enemy_move, worst_enemy_score |-> s.score, run |-> s.run]

\* "if worst_enemy_move is None or score < worst_enemy_score"
Worse(w, enemy_move, s) ==
  IF s.run.stop # "" THEN [w EXCEPT !.run = s.run]
  ELSE IF w.worst_enemy_move = NoMove \/ TupleLess(s.score, w.worst_enemy_score)
  THEN [worst_enemy_move |-> enemy_move, worst_enemy_score |-> s.score, run |-> s.run]
  ELSE [w EXCEPT !.run = s.run]

\* "for enemy_move in moves", from the i-th move on
EnemyMoves(h, w, level, max_depth, state, my_move, branch, bfs, path, i) ==
  IF i > Len(Directions) \/ w.run.stop # "" THEN w
  ELSE IF Backwards(h.sn[h.gs[state].enemy_snake], Directions[i])
  THEN EnemyMoves(h, w, level, max_depth, state, my_move, branch, bfs, path, i + 1)
  ELSE EnemyMoves(h,
                  Worse(w, Directions[i],
                        Explored(h, w.run, level, max_depth, state,
                                 << <<h.sn[h.gs[state].my_snake].color, my_move>>,
                                    <<h.sn[h.gs[state].enemy_snake].color, Directions[i]>> >>,
                                 branch, bfs, path)),
                  level, max_depth, state, my_move, branch, bfs, path, i + 1)

\* "if best_move is None or worst_enemy_score > best_score" and its twin
\* "if best_move is None or score > best_score"
Better(b, my_move, score, run) ==
  IF run.stop # "" THEN [b EXCEPT !.run = run]
  ELSE IF b.best_move = NoMove \/ TupleLess(b.best_score, score)
  THEN [best_move |-> my_move, best_score |-> score, run |-> run]
  ELSE [b EXCEPT !.run = run]

\* the answer of the enemy to my_move that is worst for me
Answered(b, my_move, w) == Better(b, my_move, w.worst_enemy_score, w.run)

\* my_move played alone
Alone(b, my_move, s) == Better(b, my_move, s.score, s.run)

\* "for my_move in moves", from the i-th move on
MyMoves(h, b, level, max_depth, state, bfs_branch, bfs, path, i) ==
  IF i > Len(Directions) \/ b.run.stop # "" THEN b
  ELSE IF Backwards(h.sn[h.gs[state].my_snake], Directions[i])
  THEN MyMoves(h, b, level, max_depth, state, bfs_branch, bfs, path, i + 1)
  ELSE IF EnemyLives(h, state)
  THEN MyMoves(h,
               Answered(b, Directions[i],
                        EnemyMoves(h, [worst_enemy_move |-> NoMove, worst_enemy_score |-> NoScore,
                                       run |-> b.run],
                                   level, max_depth, state, Directions[i],
                                   move_bfs_branch(h, state, bfs, bfs_branch, Directions[i]),
                                   bfs, path, 1)),
               level, max_depth, state, bfs_branch, bfs, path, i + 1)
  ELSE MyMoves(h,
               Alone(b, Directions[i],
                     Explored(h, b.run, level, max_depth, state,
                              << <<h.sn[h.gs[state].my_snake].color, Directions[i]>> >>,
                              move_bfs_branch(h, state, bfs, bfs_branch, Directions[i]),
                              bfs, path)),
               level, max_depth, state, bfs_branch, bfs, path, i + 1)

\* "return best_score, best_move, explored_states"
Searched(b) == [score |-> b.best_score, move |-> b.best_move, run |-> b.run]

\* search_move_space(depth, max_depth, game_state, heuristic, deadline, bfs_branch, bfs)
search_move_space(h, run, level, max_depth, state, bfs_branch, bfs, path) ==
  IF level = max_depth \/ ~h.sn[h.gs[state].my_snake].alive
  THEN Judge(h, run, state, bfs, bfs_branch, level)
  ELSE Searched(MyMoves(h, [best_move |-> NoMove, best_score |-> NoScore, run |-> run],
                        level, max_depth, state, bfs_branch, bfs, path, 1))

----------------------------------------------------------------------------
(* The decision of next_direction: BFS, iterative deepening, fallback *)

\* no search is under way
NoSearch ==
  [bfs |-> [position_stats |-> <<>>, fully_explored_distance |-> 0], depth |-> 0,
   best_move |-> NoMove, best_score |-> NoScore, total_explored_states |-> 0,
   run |-> NewRun(0)]

\* the time the runs try: turns of the BFS loop before its deadline (none, or
\* as many as the grid has cells), and deadline checks of the search that find
\* time left; a search with much time follows a BFS that had its time
Deadlines == ({0, SizeX * SizeY} \X {0, 2, 5}) \cup {<<SizeX * SizeY, MaxCalls>>}

\* bfs = self.bfs_food_and_partitions(game_state, start_time + tick_time_limit / 4),
\* and iterative_search_move_space up to its loop
Explore ==
  /\ pc = "search"
  /\ \E deadline \in Deadlines :
        search' = [bfs |-> bfs_food_and_partitions(heap, game_state, deadline[1]), depth |-> 1,
                   best_move |-> NoMove, best_score |-> NoScore, total_explored_states |-> 0,
                   run |-> NewRun(deadline[2])]
  /\ pc' = "deepen"
  /\ UNCHANGED <<heap, old_state, game_state, world, server, last, depth, ticks, answer>>

\* a loop that takes over what the interrupted search had reached
DeepenedPartial(s, r) ==
  [s EXCEPT !.run = r.run, !.best_move = r.move, !.best_score = r.score,
            !.depth = IF r.run.stop = "" THEN @ + 1 ELSE @]

\* "except SearchTimedOut: return best_score, best_move, total_explored_states"
\* and "else: total_explored_states += ...; best_move = move; best_score = score;
\* depth += 1"
Deepened(s, r) ==
  IF r.run.stop # "" THEN [s EXCEPT !.run = r.run]
  ELSE [s EXCEPT !.run = r.run,
                 !.total_explored_states = @ + r.run.explored_states,
                 !.best_move = r.move,
                 !.best_score = r.score,
                 !.depth = @ + 1]

\* one turn of "while True" in iterative_search_move_space: the search to
\* max_depth = depth returns, or SearchTimedOut ends the loop, or another
\* exception leaves next_direction
Deepen ==
  /\ pc = "deepen"
  /\ search.depth <= MaxRounds
  /\ \E r \in {search_move_space(heap, NewRun(search.run.clock), 0, search.depth,
                                 game_state, NoBranch, search.bfs, <<>>)} :
        /\ search' = Deepened(search, r)
        /\ pc' = IF r.run.stop = "" THEN "deepen"
                 ELSE IF r.run.stop = "SearchTimedOut" THEN "decide" ELSE "frame"
        /\ answer' = IF r.run.stop \in {"", "SearchTimedOut"} THEN answer ELSE r.run.stop
  /\ UNCHANGED <<heap, old_state, game_state, world, server, last, depth, ticks>>

\* "if len(bfs.position_stats) > 0": the position of the best option
BestOption(h, state, bfs) ==
  LET my_length == IF h.gs[state].my_snake # None
                   THEN h.sn[h.gs[state].my_snake].length ELSE 0
      heur(bfs_pos) == << IF bfs_pos.partition_size < my_length THEN -1 ELSE 0,
                          bfs_pos.food_score, bfs_pos.partition_size >>
      stats == bfs.position_stats
      \* max() returns the first of the largest
      best == CHOOSE i \in 1..Len(stats) :
                 /\ \A j \in 1..Len(stats) : ~TupleLess(heur(stats[i]), heur(stats[j]))
                 /\ \A j \in 1..(i - 1) : TupleLess(heur(stats[j]), heur(stats[i]))
  IN stats[best].position

\* "try to follow a tail": the first direction with a TAIL cell, if any
TailMove(h, state) ==
  LET head_pos == h.sn[h.gs[state].my_snake].head_pos
      tails_at == SelectSeq(Directions, LAMBDA d :
                     world_get(h, state, XY(head_pos[1] + d[1], head_pos[2] + d[2]))[1]
                        = WORLD_TAIL)
  IN IF Len(tails_at) > 0 THEN tails_at[1] ELSE NoMove

\* non_dying_moves: (key, direction) for the directions that are not backwards
\* and lead to an unoccupied cell or to a TAIL cell
non_dying_moves(h, state) ==
  LET me == h.sn[h.gs[state].my_snake]
      cell(d) == world_get(h, state, XY(me.head_pos[1] + d[1], me.head_pos[2] + d[2]))[1]
      kept == SelectSeq(Directions, LAMBDA d : ~Backwards(me, d) /\ cell(d) <= WORLD_TAIL)
  IN [i \in 1..Len(kept) |-> <<IF cell(kept[i]) < WORLD_TAIL THEN cell(kept[i]) ELSE -1, kept[i]>>]

\* the values best_move can have after the fallback: random.shuffle and the
\* stable sort leave any of the moves with the largest key in the last place
Fallback(h, state, bfs) ==
  LET moves == non_dying_moves(h, state)
  IN IF Len(moves) > 0
     THEN {moves[i][2] : i \in {j \in 1..Len(moves) : \A k \in 1..Len(moves) : moves[k][1] <= moves[j][1]}}
     ELSE IF Len(bfs.position_stats) > 0 THEN {BestOption(h, state, bfs)}
     ELSE {TailMove(h, state)}

\* "convert relative move to one of the documented return values"
Converted(best_move) ==
  IF best_move = DIR_UP THEN "UP"
  ELSE IF best_move = DIR_RIGHT THEN "RIGHT"
  ELSE IF best_move = DIR_DOWN THEN "DOWN"
  ELSE IF best_move = DIR_LEFT THEN "LEFT"
  ELSE "None"

\* next_direction after iterative_search_move_space returned: the fallback,
\* "self.old_state = game_state" and the value returned
Decide ==
  /\ pc = "decide"
  /\ \E best_move \in (IF search.best_move = NoMove THEN Fallback(heap, game_state, search.bfs)
                       ELSE {search.best_move}) :
        answer' = Converted(best_move)
  /\ old_state' = game_state
  /\ game_state' = None
  /\ pc' = "frame"
  /\ depth' = 0
  /\ heap' = Collect(heap, {game_state, server})
  /\ last' = NoCall
  /\ search' = NoSearch
  /\ UNCHANGED <<world, server, ticks>>

----------------------------------------------------------------------------
(* The calls of the runs *)

\* one call of advance_game
AdvanceCall(state, snake_directions) ==
  \E r \in {advance_game(heap, state, snake_directions)} :
  LET call == [op |-> "advance_game", state |-> state, pre |-> View(heap, state),
               new_state |-> r.new_state, uncertainty |-> r.uncertainty, exc |-> r.exc,
               directions |-> snake_directions,
               moves |-> r.moves, dies |-> r.dies, kills |-> r.kills,
               cleaned |-> r.cleaned]
  IN /\ last' = call
     /\ heap' = Collect(r.h, Roots(call))
     /\ depth' = depth + 1
     /\ UNCHANGED <<old_state, game_state, world, server, pc, ticks, search, answer>>

\* search_move_space: the next advance_game call of the search
SearchStep ==
  /\ pc = "search"
  /\ \E state \in Nodes : \E dirs \in SearchDirections(heap, state) :
        AdvanceCall(state, dirs)

\* advance_game called as a function, as the tests call it
CallStep ==
  /\ pc = "call"
  /\ \E state \in Nodes : \E dirs \in AllDirections(heap, state) :
        AdvanceCall(state, dirs)

\* the world changes during each frame: the game plays one frame
ServerStep ==
  /\ pc \in {"frame", "idle"}
  /\ ticks < MaxTicks
  /\ \E dirs \in ServerDirections(heap, server) :
        \E r \in {advance_game(heap, server, dirs)} :
           /\ r.exc = ""
           /\ server' = r.new_state
           /\ world' = Snapshot(r.h, r.new_state)
           /\ heap' = Collect(r.h, {old_state, game_state, r.new_state, last.state, last.new_state})
  /\ pc' = "idle"
  /\ ticks' = ticks + 1
  /\ UNCHANGED <<old_state, game_state, last, depth, search, answer>>

\* next_direction up to the search: the Observer runs on the world of the frame;
\* answer is the exception that leaves next_direction, if any
Tick ==
  /\ pc = "idle"
  /\ \E r \in {observe_state_changes(heap, old_state, world, WorldSize, my_color)} :
     LET call == [op |-> "observe_state_changes", state |-> old_state,
                  pre |-> View(heap, old_state), new_state |-> r.new_state,
                  uncertainty |-> FALSE, exc |-> r.exc, directions |-> <<>>,
                  moves |-> {}, dies |-> {}, kills |-> NoKills, cleaned |-> <<>>]
     IN /\ last' = call
        /\ game_state' = r.new_state
        /\ heap' = Collect(r.h, {old_state, r.new_state, server})
        /\ pc' = IF r.exc = "" THEN "search" ELSE "frame"
        /\ answer' = r.exc
  /\ depth' = 0
  /\ search' = NoSearch
  /\ UNCHANGED <<old_state, world, server, ticks>>

\* next_direction after the search: "self.old_state = game_state"; an exception
\* of advance_game is caught nowhere, the assignment is not reached after it;
\* with my snake dead search_move_space returns before any deadline check and
\* the loop of iterative_search_move_space does not end
Finish ==
  /\ pc = "search"
  /\ ~(last.op = "advance_game" /\ last.exc # "")
  /\ heap.sn[heap.gs[game_state].my_snake].alive
  /\ old_state' = game_state
  /\ game_state' = None
  /\ pc' = "frame"
  /\ depth' = 0
  /\ heap' = Collect(heap, {game_state, server})
  /\ last' = NoCall
  /\ UNCHANGED <<world, server, ticks, search, answer>>

\* the game itself knows every snake completely
FullyKnown(sc) ==
  \A i \in 1..Len(sc.snakes) :
     /\ Len(sc.snakes[i].head_history) = sc.snakes[i].length - 1
     /\ ~sc.snakes[i].grow_uncertain

\* MyRobotSnake.__init__, with the world of the first frame
Init ==
  \E i \in {j \in 1..Len(Scenarios) : FullyKnown(Scenarios[j])} :
     LET new == NewGame(EmptyHeap, Scenarios[i])
     IN /\ heap = new.h
        /\ server = new.ref
        /\ world = Snapshot(new.h, new.ref)
        /\ old_state = None
        /\ game_state = None
        /\ last = NoCall
        /\ pc = "idle"
        /\ depth = 0
        /\ ticks = 0
        /\ search = NoSearch
        /\ answer = ""

Next == ServerStep \/ Tick \/ SearchStep \/ Finish

Spec == Init /\ [][Next]_vars

\* next_direction reads self.world as it is handed over, nothing checks it:
\* a frame arrives with the TAIL cell of a snake damaged, showing nothing or
\* a glyph that GAME_CHARS does not know
Garble ==
  /\ pc = "idle"
  /\ world = Snapshot(heap, server)
  /\ \E y \in 1..SizeY : \E x \in 1..SizeX : \E glyph \in {" ", "?"} :
        /\ world[y][x][1] = "$"
        /\ world' = [world EXCEPT ![y][x] = <<glyph, 0>>]
  /\ UNCHANGED <<heap, old_state, game_state, server, last, pc, depth, ticks, search, answer>>

NextInput == ServerStep \/ Garble \/ Tick \/ Finish

SpecInput == Init /\ [][NextInput]_vars

\* a state built directly, to which advance_game is applied
InitCall ==
  \E i \in 1..Len(Scenarios) :
     LET new == NewGame(EmptyHeap, Scenarios[i])
     IN /\ heap = new.h
        /\ game_state = new.ref
        /\ server = None
        /\ world = Rows({})
        /\ old_state = None
        /\ last = NoCall
        /\ pc = "call"
        /\ depth = 0
        /\ ticks = 0
        /\ search = NoSearch
        /\ answer = ""

NextCall == CallStep

SpecCall == InitCall /\ [][NextCall]_vars

\* the frame numbers of the states a search starts from
Frames == {0, GameFrames - 1}

\* the states a search starts from: those above and one in which the food next
\* to my head lies in a corner smaller than my snake, and more food lies two
\* steps away on the open side
SearchScenarios ==
  Scenarios \o
  << [snakes |-> <<SnakeOn(1, <<XY(1, 1), XY(1, 2), XY(0, 2)>>, 0, 0),
                   SnakeOn(2, <<XY(3, 0), XY(2, 0), XY(1, 0)>>, 0, 0)>>,
      paths |-> << <<XY(1, 1), XY(1, 2), XY(0, 2)>>, <<XY(3, 0), XY(2, 0), XY(1, 0)>> >>,
      other |-> {<<XY(0, 1), "1", 0>>, <<XY(3, 1), "9", 0>>}] >>

\* a state built directly with my_snake and enemy_snake bound, on which the
\* decision of next_direction runs: either snake can be mine
InitSearch ==
  \E i \in 1..Len(SearchScenarios) : \E mine \in {1, 2} : \E frame_no \in Frames :
     LET new == NewGame(EmptyHeap, SearchScenarios[i])
     IN /\ heap = [BindSnakes(new.h, new.ref, mine).h EXCEPT !.gs[new.ref].frame_no = frame_no]
        /\ game_state = new.ref
        /\ server = None
        /\ world = Rows({})
        /\ old_state = None
        /\ last = NoCall
        /\ pc = "search"
        /\ depth = 0
        /\ ticks = 0
        /\ search = NoSearch
        /\ answer = ""

NextSearch == Explore \/ Deepen \/ Decide

SpecSearch == InitSearch /\ [][NextSearch]_vars

----------------------------------------------------------------------------
(* What the last call did: the input state before the call, the state returned *)

Returned == last.op = "advance_game" /\ last.exc = ""

Pre == last.pre
Post == View(heap, last.new_state)

\* snakes_by_color[color] of a state value
Rec(v, color) == v.snakes[CHOOSE i \in 1..Len(v.snakes) : v.snakes[i].color = color]
Known(v) == {v.snakes[i].color : i \in 1..Len(v.snakes)}
Alive(v) == {c \in Known(v) : Rec(v, c).alive}

\* world_get on a state value
CellAt(v, pos) ==
  IF pos[1] < 0 \/ pos[1] >= SizeX \/ pos[2] < 0 \/ pos[2] >= SizeY THEN <<WORLD_STONE, 0>>
  ELSE <<v.world[pos[2] * SizeX + pos[1]] % 32, v.world[pos[2] * SizeX + pos[1]] \div 32>>

Positions == {XY(x, y) : x \in 0..(SizeX - 1), y \in 0..(SizeY - 1)}

CellsWhere(v, kinds, color) == {p \in Positions : CellAt(v, p)[1] \in kinds /\ CellAt(v, p)[2] = color}

Segments == {WORLD_HEAD, WORLD_BODY, WORLD_TAIL}
DeadKinds == {WORLD_DEAD_HEAD, WORLD_DEAD_BODY, WORLD_DEAD_TAIL}

\* the colors of the direction map and where each one is headed
Acting == {last.directions[i][1] : i \in 1..Len(last.directions)}
DirOf(color) == last.directions[CHOOSE i \in 1..Len(last.directions) : last.directions[i][1] = color][2]
Dest(color) == XY(Rec(Pre, color).head_pos[1] + DirOf(color)[1], Rec(Pre, color).head_pos[2] + DirOf(color)[2])

Complete(snake) == Len(snake.head_history) = snake.length - 1 /\ ~snake.grow_uncertain

\* the data-model invariants of a state value
HeadTailCells(v) ==
  \A c \in Alive(v) : /\ CellAt(v, Rec(v, c).head_pos) = <<WORLD_HEAD, c>>
                      /\ CellAt(v, Rec(v, c).tail_pos) = <<WORLD_TAIL, c>>
LengthCounts(v) ==
  \A c \in Alive(v) : Cardinality(CellsWhere(v, Segments, c)) = Rec(v, c).length
DataModel(v) ==
  /\ HeadTailCells(v)
  /\ LengthCounts(v)
  /\ \A c \in Alive(v) : Rec(v, c).head_history # <<>> =>
        IsNeighbour(Rec(v, c).head_pos, Rec(v, c).head_history[1])
  /\ \A c \in Known(v) : Rec(v, c).grow >= 0
  /\ \A c \in Known(v) \ Alive(v) : CellsWhere(v, Segments, c) = {}
  /\ \A p \in Positions : CellAt(v, p)[1] \in DeadKinds => CellAt(v, p)[2] = 0

----------------------------------------------------------------------------
(* Claims *)

\* C1: in every state advance_game returns from a state that satisfies the
\* data-model invariants, the number of HEAD, BODY and TAIL cells of the color
\* of each live snake equals the snake's length.
C1_LengthConsistency ==
  (Returned /\ DataModel(Pre)) => LengthCounts(Post)

\* a snake grew in the call and another one moved on without growing
C1_Witness ==
  /\ Returned /\ DataModel(Pre)
  /\ \E c \in Alive(Post) : Rec(Post, c).length = Rec(Pre, c).length + 1
  /\ \E c \in Alive(Post) : /\ Rec(Post, c).length = Rec(Pre, c).length
                            /\ Rec(Post, c).head_pos # Rec(Pre, c).head_pos

\* C2: after every Observer step and every Transition step, every snake record
\* has grow >= 0; the growth branch of advance_game floors grow at 0, also for
\* a snake with grow 0 whose growth was only guessed.
C2_GrowNonNegative ==
  (last.op # "" /\ last.exc = "") => \A c \in Known(Post) : Rec(Post, c).grow >= 0

\* C3: after advance_game, for every snake alive in the new state the grid
\* holds exactly one HEAD cell and exactly one TAIL cell of its color, at the
\* record's head_pos and tail_pos.
C3_OneHeadOneTail ==
  Returned =>
    \A c \in Alive(Post) :
       /\ CellsWhere(Post, {WORLD_HEAD}, c) = {Rec(Post, c).head_pos}
       /\ CellsWhere(Post, {WORLD_TAIL}, c) = {Rec(Post, c).tail_pos}

\* a surviving snake left its tail cell and another one kept it
C3_Witness ==
  /\ Returned
  /\ \E c \in Alive(Post) : /\ Rec(Post, c).tail_pos # Rec(Pre, c).tail_pos
                            /\ Rec(Post, c).head_pos # Rec(Pre, c).head_pos
  /\ \E c \in Alive(Post) : /\ Rec(Post, c).tail_pos = Rec(Pre, c).tail_pos
                            /\ Rec(Post, c).head_pos # Rec(Pre, c).head_pos

\* every record of a is a record of b, and the dead of a are dead in b
Monotone(a, b) ==
  /\ Known(a) \subseteq Known(b)
  /\ \A c \in Known(a) : ~Rec(a, c).alive => ~Rec(b, c).alive

\* C4: snake liveness is monotone.  The live colors after advance_game are a
\* subset of those before; across Observer and Transition steps no dead record
\* becomes alive and no record leaves snakes_by_color, neither in the state a
\* step returns nor in the old state the Observer updates in place.
C4_LivenessMonotone ==
  /\ (last.op # "" /\ last.exc = "") => Monotone(Pre, Post)
  /\ Returned => Alive(Post) \subseteq Alive(Pre)
  /\ (last.op = "observe_state_changes" /\ last.state # None) =>
        Monotone(Pre, View(heap, last.state))

\* a step from a state with a dead record in which another snake dies
C4_Witness ==
  /\ last.op # "" /\ last.exc = ""
  /\ Known(Pre) \ Alive(Pre) # {}
  /\ Alive(Pre) \ Alive(Post) # {}

\* the byte mark_dead writes for a byte of the grid
Repainted(byte, dies) ==
  IF byte % 32 \in Segments /\ byte \div 32 \in dies
  THEN (byte % 32) + (WORLD_DEAD_TAIL - WORLD_TAIL)
  ELSE byte

\* C5: after advance_game every snake that died in this tick has alive = false
\* and no HEAD, BODY or TAIL cell of its color; the cells it had when the
\* repaint began carry DEAD_HEAD, DEAD_BODY, DEAD_TAIL with color 0, every
\* other cell is left as it was, and (the input satisfying the data-model
\* invariants) every DEAD_* cell of the grid has color 0.
C5_DeadFootprint ==
  (Returned /\ DataModel(Pre)) =>
    /\ \A c \in last.dies : /\ ~Rec(Post, c).alive
                            /\ CellsWhere(Post, Segments, c) = {}
    /\ \A i \in DOMAIN Post.world : Post.world[i] = Repainted(last.cleaned[i], last.dies)
    /\ \A p \in Positions : CellAt(Post, p)[1] \in DeadKinds => CellAt(Post, p)[2] = 0

\* a snake died while the other one moved on
C5_Witness ==
  /\ Returned /\ DataModel(Pre)
  /\ \E c \in last.dies : \E p \in Positions :
        /\ CellAt(Pre, p) = <<WORLD_BODY, c>>
        /\ CellAt(Post, p) = <<WORLD_DEAD_BODY, 0>>
  /\ \E c \in Alive(Post) : Rec(Post, c).head_pos # Rec(Pre, c).head_pos

\* the snakes whose tail cell is vacated by the call
Vacating == {c \in last.moves : Rec(Post, c).tail_pos # Rec(Pre, c).tail_pos}

\* C6: in one advance_game call a cell that receives a head is never VOID in
\* the result: the cell a moving snake's tail vacated is set to VOID only if
\* no snake's head moved into it.
C6_NoOrphanVoid ==
  Returned =>
    /\ \A c \in last.moves : CellAt(Post, Dest(c))[1] # WORLD_VOID
    /\ \A d \in Vacating :
          CellAt(Post, Rec(Pre, d).tail_pos)[1] = WORLD_VOID
             => \A c \in last.moves : Dest(c) # Rec(Pre, d).tail_pos

\* a head moved into a tail cell vacated in the same call
C6_Witness ==
  /\ Returned
  /\ \E d \in Vacating : \E c \in last.moves : Dest(c) = Rec(Pre, d).tail_pos
  /\ \E d \in Vacating : CellAt(Post, Rec(Pre, d).tail_pos)[1] = WORLD_VOID

\* the returned state shares no bytearray, dict or snake record with the input
NoSharing(h, state, new_state) ==
  /\ h.gs[state].world # h.gs[new_state].world
  /\ h.gs[state].snakes_by_color # h.gs[new_state].snakes_by_color
  /\ DictValues(h.dict[h.gs[state].snakes_by_color])
       \cap DictValues(h.dict[h.gs[new_state].snakes_by_color]) = {}

\* C7: advance_game does not modify its input state: after the call its grid
\* bytes, frame_no and every field of every snake record are what they were
\* before, and the returned state shares nothing with it, so that later
\* changes to the returned state cannot show up in the input state.
C7_InputUntouched ==
  last.op = "advance_game" =>
    /\ View(heap, last.state) = Pre
    /\ last.exc = "" => NoSharing(heap, last.state, last.new_state)

\* a call that moved and grew one snake and killed another
C7_Witness ==
  /\ Returned
  /\ \E c \in Alive(Post) : /\ Rec(Post, c).head_history # Rec(Pre, c).head_history
                            /\ Rec(Post, c).length # Rec(Pre, c).length
  /\ Alive(Pre) \ Alive(Post) # {}
  /\ Post.world # Pre.world

\* the acting snakes with a complete, certain record that head for a VOID cell
VoidMovers ==
  {c \in Acting : /\ Rec(Pre, c).alive
                  /\ Complete(Rec(Pre, c))
                  /\ CellAt(Pre, Dest(c))[1] = WORLD_VOID}

Front(seq) == SubSeq(seq, 1, Len(seq) - 1)

\* the cells of a snake, head first
PathOf(snake) == <<snake.head_pos>> \o snake.head_history

\* what a move into Dest(c) does to the record and the cells of c, apart from
\* the cell of its old tail
MovedTo(c) ==
  LET a == Rec(Pre, c)
      b == Rec(Post, c)
  IN /\ CellAt(Post, a.head_pos) = <<WORLD_BODY, c>>
     /\ CellAt(Post, Dest(c)) = <<WORLD_HEAD, c>>
     /\ b.head_pos = Dest(c)
     /\ a.grow = 0 => /\ b.tail_pos = PathOf(a)[a.length - 1]
                      /\ CellAt(Post, b.tail_pos) = <<WORLD_TAIL, c>>
                      /\ b.length = a.length
                      /\ b.grow = 0
                      /\ b.head_history = <<a.head_pos>> \o Front(a.head_history)
     /\ a.grow > 0 => /\ b.tail_pos = a.tail_pos
                      /\ CellAt(Post, b.tail_pos) = <<WORLD_TAIL, c>>
                      /\ b.length = a.length + 1
                      /\ b.grow = a.grow - 1
                      /\ b.head_history = <<a.head_pos>> \o a.head_history

SoleVoidMovers ==
  {c \in VoidMovers : \A d \in Acting \ {c} : Dest(d) # Dest(c)}

Eaters == {c \in last.moves \ last.dies : CellAt(Pre, Dest(c))[1] \in 1..9}

\* should_grow on the record of the input state
GrowsBefore(c) == ~Complete(Rec(Pre, c)) \/ Rec(Pre, c).grow > 0

\* C9: when a surviving snake moves into a FOOD cell of value v, advance_game
\* adds v to its grow and to its score (next to the 1000 per kill credited to
\* it), and the food eaten in this tick does not change whether the tail
\* vacates in this tick: the snake grows, by one cell and for one unit of grow,
\* exactly when should_grow holds of its record before the move.
C9_FoodAfterGrowth ==
  Returned =>
    \A c \in Eaters :
       LET a == Rec(Pre, c)
           b == Rec(Post, c)
           v == CellAt(Pre, Dest(c))[1]
           grew == IF GrowsBefore(c) THEN 1 ELSE 0
       IN /\ b.grow = a.grow + v - grew
          /\ b.score = a.score + v + KillPoints * Len(last.kills[c])
          /\ b.length = a.length + grew
          /\ (b.tail_pos = a.tail_pos) <=> GrowsBefore(c)

\* a snake with grow 0 ate: its tail vacated and its grow is the food's value
C9_Witness ==
  /\ Returned
  /\ \E c \in Eaters :
        /\ Complete(Rec(Pre, c)) /\ Rec(Pre, c).grow = 0
        /\ Rec(Post, c).grow = CellAt(Pre, Dest(c))[1]
        /\ Rec(Post, c).length = Rec(Pre, c).length
        /\ Rec(Post, c).tail_pos # Rec(Pre, c).tail_pos

\* the acting snakes whose destination is STONE, outside the grid or DEAD_*
Crashers ==
  {c \in Acting : /\ Rec(Pre, c).alive
                  /\ CellAt(Pre, Dest(c))[1] \in DeadKinds \cup {WORLD_STONE}}

Victims(kills) == UNION {{kills[k][i] : i \in 1..Len(kills[k])} : k \in DOMAIN kills}

\* C10: a snake whose destination is a STONE cell, a position outside the grid
\* or a DEAD_* cell dies without moving: its record is unchanged but for alive,
\* its cells are repainted DEAD_*, and no kill is credited for it: it is no
\* victim of any record, live or dead, and when it is the only snake acting
\* no score changes.
C10_CrashNoCredit ==
  Returned =>
    \A c \in Crashers :
       /\ Rec(Post, c) = [Rec(Pre, c) EXCEPT !.alive = FALSE]
       /\ \A p \in Positions :
             (CellAt(Pre, p)[1] \in Segments /\ CellAt(Pre, p)[2] = c)
                => CellAt(Post, p) = <<CellAt(Pre, p)[1] + (WORLD_DEAD_TAIL - WORLD_TAIL), 0>>
       /\ c \notin Victims(last.kills)
       /\ Acting = {c} => \A d \in Known(Pre) : Rec(Post, d).score = Rec(Pre, d).score

\* the acting snakes whose destination is a HEAD or BODY cell of another snake
BodyHitters ==
  {c \in Acting : /\ Rec(Pre, c).alive
                  /\ CellAt(Pre, Dest(c))[1] \in {WORLD_HEAD, WORLD_BODY}
                  /\ CellAt(Pre, Dest(c))[2] \in Known(Pre) \ {c}}

\* the snake whose HEAD or BODY cell is the destination of c
HitBy(c) == CellAt(Pre, Dest(c))[2]

\* the value of the food a snake ate in the call, 0 when it ate none
FoodOf(k) == IF k \in Eaters THEN CellAt(Pre, Dest(k))[1] ELSE 0

\* C11: when snake c moves into a cell that is a HEAD or BODY of a different
\* snake k, c dies without moving (its record is unchanged but for alive, its
\* score included, and its cells are repainted where they were), and a k that
\* survives the tick gains exactly 1000 for each such victim, next to the
\* value of the food it ate itself in the tick.
C11_BodyKill ==
  Returned =>
    \A c \in BodyHitters :
       /\ c \in last.dies /\ c \notin last.moves
       /\ Rec(Post, c) = [Rec(Pre, c) EXCEPT !.alive = FALSE]
       /\ \A p \in Positions :
             (CellAt(Pre, p)[1] \in Segments /\ CellAt(Pre, p)[2] = c)
                => CellAt(Post, p)[1] = CellAt(Pre, p)[1] + (WORLD_DEAD_TAIL - WORLD_TAIL)
       /\ HitBy(c) \notin last.dies =>
             Rec(Post, HitBy(c)).score =
                Rec(Pre, HitBy(c)).score + FoodOf(HitBy(c))
                  + KillPoints * Cardinality({d \in BodyHitters : HitBy(d) = HitBy(c)})

\* a snake ran into the body of a snake that moved on and was credited the kill
C11_Witness ==
  /\ Returned
  /\ \E c \in BodyHitters :
        /\ HitBy(c) \in Alive(Post)
        /\ CellAt(Pre, Dest(c))[1] = WORLD_BODY
        /\ Rec(Post, HitBy(c)).score = Rec(Pre, HitBy(c)).score + KillPoints
        /\ Rec(Post, HitBy(c)).head_pos # Rec(Pre, HitBy(c)).head_pos

\* the acting snakes whose destination is a HEAD or BODY cell of their own
SelfHitters ==
  {c \in Acting : /\ Rec(Pre, c).alive
                  /\ CellAt(Pre, Dest(c))[1] \in {WORLD_HEAD, WORLD_BODY}
                  /\ CellAt(Pre, Dest(c))[2] = c}

\* the acting snakes that move into a HEAD or BODY cell of each other
MutualHitters ==
  {c \in BodyHitters : HitBy(c) \in BodyHitters /\ HitBy(HitBy(c)) = c}

\* C12: a snake that dies in a tick gains no points in that tick.  When two
\* snakes each move into the other's HEAD or BODY cell, or a snake moves into
\* its own body, each of them dies without moving and with its record unchanged
\* but for alive; when every acting snake dies in one of these ways, no snake
\* moves and every score of the state is unchanged.
C12_NoPointsForTheDead ==
  Returned =>
    /\ \A c \in last.dies : Rec(Post, c).score = Rec(Pre, c).score
    /\ \A c \in SelfHitters \cup MutualHitters :
          /\ c \in last.dies /\ c \notin last.moves
          /\ Rec(Post, c) = [Rec(Pre, c) EXCEPT !.alive = FALSE]
    /\ Acting \subseteq SelfHitters \cup MutualHitters =>
          /\ last.moves = {}
          /\ last.dies = Acting
          /\ \A d \in Known(Pre) : Rec(Post, d).score = Rec(Pre, d).score

\* two snakes ran into each other: both died and no kill was left to pay
C12_Witness ==
  /\ Returned
  /\ \E c \in MutualHitters :
        /\ \A k \in DOMAIN last.kills : last.kills[k] = <<>>
        /\ Rec(Pre, c).score # Rec(Pre, HitBy(c)).score
        /\ Rec(Post, c).score = Rec(Pre, c).score
        /\ ~Rec(Post, c).alive /\ ~Rec(Post, HitBy(c)).alive

\* should_grow is false of the record: its tail vacates when it moves
Vacates(d) == Complete(Rec(Pre, d)) /\ Rec(Pre, d).grow = 0

\* a destination that is not fatal by itself: VOID, FOOD, or the tail of an
\* acting snake that vacates it
Harmless(pos) ==
  \/ CellAt(Pre, pos)[1] \in {WORLD_VOID} \cup (1..9)
  \/ \E d \in Acting : /\ Rec(Pre, d).alive
                       /\ CellAt(Pre, pos) = <<WORLD_TAIL, d>>
                       /\ Vacates(d)

\* the acting snakes that share a harmless destination with another one
Colliders ==
  {c \in Acting : /\ Rec(Pre, c).alive
                  /\ Harmless(Dest(c))
                  /\ \E d \in Acting \ {c} : Rec(Pre, d).alive /\ Dest(d) = Dest(c)}

\* C13: when two acting snakes have the same destination cell and that cell is
\* not itself fatal (VOID, FOOD, or a tail that vacates), both snakes die but
\* both moves are applied: each head advances to the destination with the old
\* head pushed onto head_history and repainted DEAD_BODY, the destination holds
\* a DEAD_HEAD, and neither snake gains grow, food score or kill points.
C13_FrontalCollision ==
  Returned =>
    \A c \in Colliders :
       LET a == Rec(Pre, c)
           b == Rec(Post, c)
       IN /\ c \in last.dies /\ c \in last.moves
          /\ ~b.alive
          /\ b.head_pos = Dest(c)
          /\ b.head_history # <<>> /\ b.head_history[1] = a.head_pos
          /\ CellAt(Post, Dest(c)) = <<WORLD_DEAD_HEAD, 0>>
          /\ CellAt(Post, a.head_pos) = <<WORLD_DEAD_BODY, 0>>
          /\ b.grow <= a.grow
          /\ b.score = a.score

\* exactly two snakes act and each one heads for the tail cell of the other
TailCycle ==
  /\ Cardinality(Acting) = 2
  /\ \A c \in Acting : Rec(Pre, c).alive
  /\ \A c \in Acting : \E d \in Acting \ {c} : Dest(c) = Rec(Pre, d).tail_pos

\* C14: in a call that returns, when exactly two snakes act and each one's
\* destination is the other's current tail cell: if either snake should grow,
\* both die, neither moves and neither gains points; otherwise both move, both
\* stay alive, each head ends on the other's former tail cell, and no kill is
\* credited.
C14_TailCycle ==
  (Returned /\ TailCycle) =>
    /\ \A k \in DOMAIN last.kills : last.kills[k] = <<>>
    /\ \A c \in Acting : Rec(Post, c).score = Rec(Pre, c).score
    /\ IF \E c \in Acting : GrowsBefore(c)
       THEN /\ last.dies = Acting /\ last.moves = {}
            /\ \A c \in Acting : Rec(Post, c) = [Rec(Pre, c) EXCEPT !.alive = FALSE]
       ELSE /\ last.moves = Acting /\ last.dies = {}
            /\ \A c \in Acting :
                  /\ Rec(Post, c).alive
                  /\ Rec(Post, c).head_pos = Dest(c)
                  /\ CellAt(Post, Dest(c)) = <<WORLD_HEAD, c>>
                  /\ \E d \in Acting \ {c} : Dest(c) = Rec(Pre, d).tail_pos

\* a tail cycle in which a snake that is known to grow made both snakes die
C14_Witness ==
  /\ Returned /\ TailCycle
  /\ \E c \in Acting : Rec(Pre, c).grow > 0 /\ Complete(Rec(Pre, c))
  /\ last.dies = Acting

\* the acting snakes whose destination is the TAIL cell of a live snake, outside
\* the mutual two-snake cycle
TailEnterers ==
  {c \in Acting : /\ Rec(Pre, c).alive
                  /\ ~TailCycle
                  /\ CellAt(Pre, Dest(c))[1] = WORLD_TAIL
                  /\ CellAt(Pre, Dest(c))[2] \in Alive(Pre)}

\* the snake whose tail cell is the destination of c
OwnerOf(c) == CellAt(Pre, Dest(c))[2]

\* the owner of the tail should grow, or does not move in the call
Blocked(c) == GrowsBefore(OwnerOf(c)) \/ OwnerOf(c) \notin last.moves

\* C15: outside the mutual two-snake cycle, when snake c's destination is the
\* tail cell of snake d (d may be c itself): c dies without moving if d should
\* grow or d does not move in this tick, and the kill is credited to d (+1000
\* if d survives) only when d is a different snake; otherwise the tail cell
\* counts as vacated and c moves into it and survives.
C15_TailChase ==
  Returned =>
    \A c \in TailEnterers :
       IF Blocked(c)
       THEN /\ c \in last.dies /\ c \notin last.moves
            /\ Rec(Post, c) = [Rec(Pre, c) EXCEPT !.alive = FALSE]
            /\ (OwnerOf(c) # c /\ OwnerOf(c) \notin last.dies) =>
                  /\ c \in Victims(last.kills)
                  /\ Rec(Post, OwnerOf(c)).score =
                        Rec(Pre, OwnerOf(c)).score + FoodOf(OwnerOf(c)) + KillPoints
            /\ OwnerOf(c) = c => c \notin Victims(last.kills)
       ELSE /\ c \in last.moves /\ c \notin last.dies
            /\ Rec(Post, c).alive
            /\ Rec(Post, c).head_pos = Dest(c)
            /\ CellAt(Post, Dest(c)) = <<WORLD_HEAD, c>>

\* the owners of the TAIL cells that acting snakes are entering
TailOwners ==
  {d \in Alive(Pre) : \E c \in Acting : Rec(Pre, c).alive /\ CellAt(Pre, Dest(c)) = <<WORLD_TAIL, d>>}

\* the snakes whose growth is decided in the call: those that move, and the
\* owners of the tails that are entered
Consulted == last.moves \cup TailOwners

\* C16: advance_game returns uncertainty = true exactly when the growth
\* decision was consulted for at least one snake (a snake that moves, or the
\* owner of a tail that an acting snake is entering) whose head_history is not
\* length - 1 long or whose grow_uncertain is true; for such a snake the tail
\* is treated as not vacating: it stays where it is when the snake moves, and
\* a snake entering it dies.  When every snake of the state has complete
\* history and grow_uncertain = false, uncertainty is false.
C16_Uncertainty ==
  Returned =>
    /\ last.uncertainty <=> \E d \in Consulted : ~Complete(Rec(Pre, d))
    /\ \A d \in last.moves : ~Complete(Rec(Pre, d)) =>
          /\ Rec(Post, d).tail_pos = Rec(Pre, d).tail_pos
          /\ Rec(Post, d).length = Rec(Pre, d).length + 1
    /\ \A c \in Acting : \A d \in TailOwners :
          (Rec(Pre, c).alive /\ CellAt(Pre, Dest(c)) = <<WORLD_TAIL, d>> /\ ~Complete(Rec(Pre, d)))
             => c \in last.dies
    /\ (\A d \in Known(Pre) : Complete(Rec(Pre, d))) => ~last.uncertainty

\* the frame number of the state the bot retains, -1 when it retains none
RetainedFrameNo(h, retained) == IF retained = None THEN -1 ELSE h.gs[retained].frame_no

\* the Observer was the last call and returned a state
Observing == last.op = "observe_state_changes" /\ last.exc = ""

\* a step in which next_direction runs the Observer
ObserverRuns == last'.op = "observe_state_changes" /\ last' # last

\* a step in which next_direction comes to its end
TickEnds == pc = "search" /\ pc' = "frame"

\* C17: the Observer's output has frame_no 0 when there is no old state and
\* old_state.frame_no + 1 otherwise; in every tick of next_direction the
\* Observer runs exactly once, on the retained old_state and before the search,
\* and at the end of the tick the retained old_state is replaced by the state
\* observed in that tick, so that the retained frame_no increases by exactly 1
\* per tick (from no state to frame_no 0 in the first one).
C17_FrameCounter ==
  /\ [](Observing => /\ Post.frame_no = (IF last.state = None THEN 0 ELSE Pre.frame_no + 1)
                     /\ last.state = old_state
                     /\ last.new_state = game_state)
  /\ [][ObserverRuns => (pc = "idle" /\ pc' # "idle")]_vars
  /\ [][TickEnds => /\ old_state' = game_state
                    /\ RetainedFrameNo(heap', old_state') = RetainedFrameNo(heap, old_state) + 1]_vars

\* the second tick ended: the retained state has frame_no 1
C17_Witness ==
  /\ pc = "frame"
  /\ RetainedFrameNo(heap, old_state) = 1

\* the Observer ran on an old state and returned
Reobserving == Observing /\ last.state # None

\* the HEAD cells of a color in the snapshot the Observer read
SeenHeads(c) == CellsWhere(Post, {WORLD_HEAD}, c)
SeenTails(c) == CellsWhere(Post, {WORLD_TAIL}, c)

\* the known snakes whose head is seen on a 4-neighbour of their previous head_pos
Stepped ==
  {c \in Known(Pre) : \E p \in SeenHeads(c) :
      SeenHeads(c) = {p} /\ IsNeighbour(p, Rec(Pre, c).head_pos)}

\* the value of the FOOD cell of the old grid at a position, 0 when it holds none
FoodAt(v, pos) == IF CellAt(v, pos)[1] \in 1..9 THEN CellAt(v, pos)[1] ELSE 0

\* C18: when a previously known snake's head in the new snapshot is a
\* 4-neighbour of its previous head_pos, the Observer pushes the previous
\* head_pos onto the front of head_history (whose last element may then be
\* removed for the tail that moved) and, if the old grid had a FOOD cell of
\* value v at the new head position, adds v to both grow (after the per-tick
\* decrement toward 0) and score; score is otherwise unchanged.
C18_ObservedStep ==
  Reobserving =>
    \A c \in Stepped :
       LET a == Rec(Pre, c)
           b == Rec(Post, c)
           v == FoodAt(Pre, b.head_pos)
           pushed == <<a.head_pos>> \o a.head_history
       IN /\ SeenHeads(c) = {b.head_pos}
          /\ b.head_history \in {pushed, Front(pushed)}
          /\ b.head_history # <<>> /\ b.head_history[1] = a.head_pos
          /\ b.grow = (IF a.grow > 0 THEN a.grow - 1 ELSE 0) + v
          /\ b.score = a.score + v

\* a known snake was seen one step further, on a cell that held food
C18_Witness ==
  /\ Reobserving
  /\ \E c \in Stepped : /\ FoodAt(Pre, Rec(Post, c).head_pos) > 0
                        /\ Rec(Post, c).score > Rec(Pre, c).score
  /\ \E c \in Stepped : FoodAt(Pre, Rec(Post, c).head_pos) = 0

\* the TAIL cells of a color in the old grid
OldTailCells(c) == CellsWhere(Pre, {WORLD_TAIL}, c)

\* the snakes of Stepped with one TAIL cell in the old grid and one in the snapshot
Tailed == {c \in Stepped : Cardinality(OldTailCells(c)) = 1 /\ Cardinality(SeenTails(c)) = 1}

\* C19: in the Observer, for a known color that needs no re-trace: when its
\* tail position differs between the old grid and the new snapshot, the last
\* element of head_history (after the push of the previous head) is removed if
\* it equals the old tail position, and grow_uncertain becomes false; when the
\* tail position did not change, head_history is not popped and grow_uncertain
\* keeps its previous value.
C19_TailMoved ==
  Reobserving =>
    \A c \in Tailed :
       LET a == Rec(Pre, c)
           b == Rec(Post, c)
           pushed == <<a.head_pos>> \o a.head_history
       IN IF OldTailCells(c) # SeenTails(c)
          THEN /\ b.head_history = IF {pushed[Len(pushed)]} = OldTailCells(c)
                                   THEN Front(pushed) ELSE pushed
               /\ ~b.grow_uncertain
          ELSE /\ b.head_history = pushed
               /\ b.grow_uncertain = a.grow_uncertain

\* a tail that moved made an uncertain record certain
C19_Witness ==
  /\ Reobserving
  /\ \E c \in Tailed : /\ OldTailCells(c) # SeenTails(c)
                       /\ Rec(Pre, c).grow_uncertain
                       /\ Len(Rec(Post, c).head_history) = Len(Rec(Pre, c).head_history)

\* the colors with one HEAD cell in the snapshot that the Observer has to trace:
\* those seen for the first time, and the known ones whose head is not on a
\* 4-neighbour of their previous head_pos
Traced ==
  {c \in Known(Post) : \E p \in SeenHeads(c) :
      /\ SeenHeads(c) = {p}
      /\ (last.state = None \/ c \notin Known(Pre) \/ ~IsNeighbour(p, Rec(Pre, c).head_pos))}

\* the same-color segments next to path[i] the trace can go on with
Continuations(v, c, path, i) ==
  {q \in Positions : /\ IsNeighbour(q, path[i])
                     /\ (i > 1 => q # path[i - 1])
                     /\ CellAt(v, q)[1] \in Segments /\ CellAt(v, q)[2] = c}

\* path follows the only continuation from cell to cell, and ends on the first
\* cell with no continuation or more than one
IsTrace(v, c, path) ==
  /\ \A i \in 1..(Len(path) - 1) : Continuations(v, c, path, i) = {path[i + 1]}
  /\ Cardinality(Continuations(v, c, path, Len(path))) # 1

\* C20: when a color's head appears for the first time, or a known snake's new
\* head is not a 4-neighbour of its previous head_pos, the Observer replaces
\* head_history by trace_snake_path(head_pos) without the head cell, sets
\* grow = 0 and grow_uncertain = true, keeps the score (0 for a new record) and
\* takes length from the cell count; the trace stops at the first cell with
\* zero or more than one same-color continuation, so head_history may be
\* shorter than length - 1, and is never longer.
C20_Retrace ==
  Observing =>
    \A c \in Traced :
       LET b == Rec(Post, c)
       IN /\ SeenHeads(c) = {b.head_pos}
          /\ IsTrace(Post, c, PathOf(b))
          /\ b.grow = 0
          /\ b.grow_uncertain
          /\ b.score = (IF last.state # None /\ c \in Known(Pre) THEN Rec(Pre, c).score ELSE 0)
          /\ b.length = Cardinality(CellsWhere(Post, Segments, c))
          /\ Len(b.head_history) <= b.length - 1

\* a known snake was traced again after a missed frame, and the trace of a
\* snake whose head touches its own tail stopped at the head
C20_Witness ==
  /\ Observing
  /\ \E c \in Traced : /\ last.state # None /\ c \in Known(Pre)
                       /\ Rec(Post, c).head_history # <<>>
                       /\ Rec(Post, c).head_history # Rec(Pre, c).head_history
  /\ \E c \in Traced : Len(Rec(Post, c).head_history) < Rec(Post, c).length - 1

\* the known colors without a TAIL cell in the snapshot the Observer read
Gone == {c \in Known(Pre) : SeenTails(c) = {}}

\* the known colors the snapshot shows with one HEAD cell and one TAIL cell
Shown == {c \in Known(Pre) : Cardinality(SeenHeads(c)) = 1 /\ Cardinality(SeenTails(c)) = 1}

\* C21: when a previously known color has no TAIL cell in the new snapshot,
\* the Observer marks its record alive = false and the record keeps its last
\* length, score, head_pos, tail_pos and head_history, while the records of
\* the other snakes are updated from the snapshot: they keep their alive flag
\* and take head_pos, tail_pos and length from their cells.
C21_ObservedDeath ==
  Reobserving =>
    /\ \A c \in Gone :
          LET a == Rec(Pre, c)
              b == Rec(Post, c)
          IN /\ ~b.alive
             /\ b.length = a.length
             /\ b.score = a.score
             /\ b.head_pos = a.head_pos
             /\ b.tail_pos = a.tail_pos
             /\ b.head_history = a.head_history
    /\ (Gone # {} => \A d \in Shown :
          LET a == Rec(Pre, d)
              b == Rec(Post, d)
          IN /\ b.alive = a.alive
             /\ SeenHeads(d) = {b.head_pos}
             /\ SeenTails(d) = {b.tail_pos}
             /\ b.length = Cardinality(CellsWhere(Post, Segments, d)))

\* a snake that was alive is gone from the snapshot in which the other one,
\* still alive, is seen one step further
C21_Witness ==
  /\ Reobserving
  /\ \E c \in Gone : /\ Rec(Pre, c).alive
                     /\ Rec(Pre, c).head_history # <<>>
                     /\ \E d \in Shown \cap Stepped : Rec(Post, d).alive

----------------------------------------------------------------------------
(* C22, C23: frames the Observer cannot read *)

\* the world the Observer read last is still the world of the frame
JustObserved == last.op = "observe_state_changes" /\ pc # "idle"

\* the positions of the world of the frame that show glyph ch in color c
Showing(ch, c) ==
  {p \in Positions : world[p[2] + 1][p[1] + 1] = <<ch, c>>}

\* the colors that show a HEAD cell and no TAIL cell
Tailless == {c \in 1..2 : Showing("@", c) # {} /\ Showing("$", c) = {}}

\* hist leads from the head over neighbouring cells of the snake of color c
TracedFrom(c, head, hist) ==
  \A i \in 1..Len(hist) :
     /\ hist[i] \in Showing("*", c) \cup Showing("$", c)
     /\ LET from == IF i = 1 THEN head ELSE hist[i - 1]
        IN (hist[i][1] - from[1]) * (hist[i][1] - from[1])
             + (hist[i][2] - from[2]) * (hist[i][2] - from[2]) = 1

\* C22: when the frame shows a HEAD cell of a color and no TAIL cell of that
\* color, the Observer does not fail: it returns a state in which that snake
\* has grow_uncertain set and a head_history traced from its head
C22_HeadWithoutTail ==
  JustObserved =>
     \A c \in Tailless :
        /\ last.exc = ""
        /\ c \in Known(Post)
        /\ Rec(Post, c).grow_uncertain
        /\ Showing("@", c) = {Rec(Post, c).head_pos}
        /\ TracedFrom(c, Rec(Post, c).head_pos, Rec(Post, c).head_history)

\* C23: when the Observer fails on the frame of a tick, next_direction returns
\* None (no change) and old_state, every field of its snake records included,
\* is what it was before the tick
C23_FailedTick ==
  (JustObserved /\ last.exc # "") =>
     /\ answer = "None"
     /\ View(heap, old_state) = last.pre

----------------------------------------------------------------------------
(* C24: the Observer on every frame of a game *)

\* the Observer has read every frame since the first one: its frame counter
\* is the number of frames the game has played
EveryFrameSeen == Observing /\ ticks = Post.frame_no

Smaller(a, b) == IF a < b THEN a ELSE b

\* the records whose head_history reaches the tail
Whole(v) == {c \in Known(v) : Len(Rec(v, c).head_history) = Rec(v, c).length - 1}

\* C24: with no old state at the start and the Observer applied to every frame
\* of the game, t ticks after a snake was first seen its head_history has at
\* least min(length - 1, t) elements and never more than length - 1; a history
\* that reaches the tail (no ambiguity in the trace) reaches it from then on
C24_Convergence ==
  EveryFrameSeen =>
     /\ \A c \in Known(Post) :
           /\ Len(Rec(Post, c).head_history) <= Rec(Post, c).length - 1
           /\ Rec(Post, c).alive =>
                 Len(Rec(Post, c).head_history)
                    >= Smaller(Rec(Post, c).length - 1, Post.frame_no)
     /\ last.state # None => Whole(Pre) \subseteq Whole(Post)

\* two ticks after the first frame a snake whose first trace was ambiguous has
\* two elements and not yet its whole length, next to a snake known whole
C24_Witness ==
  /\ EveryFrameSeen
  /\ Post.frame_no = 2
  /\ \E c \in Known(Post) \ Whole(Post) :
        /\ Rec(Post, c).alive
        /\ Len(Rec(Post, c).head_history) = 2
  /\ \E d \in Whole(Pre) : Rec(Post, d).alive /\ Rec(Post, d).head_pos # Rec(Pre, d).head_pos

----------------------------------------------------------------------------
(* C25..C30: the search and the decision of next_direction *)

\* the loop of iterative_search_move_space has ended on SearchTimedOut
TimedOut == pc = "decide"

\* the search from the root to max_depth with all the time it needs
Unhurried(max_depth) ==
  search_move_space(heap, NewRun(-1), 0, max_depth, game_state, NoBranch, search.bfs, <<>>)

\* C25: when the deadline ends the iterative deepening, the score and the move
\* returned are those of the search to the largest depth that ran to its end;
\* the interrupted depth changes neither, and when no depth ran to its end the
\* move is None
C25_LastCompleted ==
  TimedOut =>
     IF search.depth = 1
     THEN search.best_move = NoMove /\ search.best_score = NoScore
     ELSE /\ search.best_move = Unhurried(search.depth - 1).move
          /\ search.best_score = Unhurried(search.depth - 1).score

\* a search to depth 1 ran to its end and chose a move, the search to depth 2
\* was interrupted after it had explored states
C25_Witness ==
  /\ TimedOut
  /\ search.depth = 2
  /\ search.best_move # NoMove
  /\ search.run.explored_states > 1
  /\ search.total_explored_states > 0

\* C26: for every root state, my snake alive in it or not, every turn of the
\* loop of iterative_search_move_space reaches a deadline check, so that the
\* loop ends once the deadline has passed, and no advance_game call is made
\* after a check has seen the deadline passed
C26_DeadlineHonoured ==
  /\ (pc = "deepen" /\ search.depth > 1) => search.run.checks > 0
  /\ TimedOut => /\ search.run.checks > 0
                 /\ search.run.explored_states = search.run.checks - 1

\* the directions a snake may take: all but the reverse of its direction
Options(h, snake) == {d \in {DIR_UP, DIR_RIGHT, DIR_DOWN, DIR_LEFT} : ~Backwards(h.sn[snake], d)}

Greatest(scores) == CHOOSE v \in scores : \A w \in scores : ~TupleLess(v, w)
Least(scores) == CHOOSE v \in scores : \A w \in scores : ~TupleLess(w, v)

\* the value of the state advance_game returns for the moves dirs at a node:
\* the heuristic when the call was uncertain, the search below it otherwise
ChildValue(h, state, level, max_depth, branch, dirs) ==
  LET r == advance_game(h, state, dirs)
  IN IF r.uncertainty THEN heuristic(r.h, r.new_state, search.bfs, branch, level)
     ELSE search_move_space(r.h, NewRun(-1), level + 1, max_depth, r.new_state, branch,
                            search.bfs, <<>>).score

\* the value of my_move at a node: the least over the enemy's moves when the
\* enemy lives, the value of the move played alone otherwise
MoveValue(h, state, level, max_depth, bfs_branch, my_move) ==
  LET gs == h.gs[state]
      branch == move_bfs_branch(h, state, search.bfs, bfs_branch, my_move)
  IN IF EnemyLives(h, state)
     THEN Least({ChildValue(h, state, level, max_depth, branch,
                            << <<h.sn[gs.my_snake].color, my_move>>,
                               <<h.sn[gs.enemy_snake].color, enemy_move>> >>) :
                   enemy_move \in Options(h, gs.enemy_snake)})
     ELSE ChildValue(h, state, level, max_depth, branch,
                     << <<h.sn[gs.my_snake].color, my_move>> >>)

NodeValue(h, state, level, max_depth, bfs_branch) ==
  Greatest({MoveValue(h, state, level, max_depth, bfs_branch, my_move) :
              my_move \in Options(h, h.gs[state].my_snake)})

\* the first direction in the order UP, RIGHT, DOWN, LEFT that has the value
NodeMove(h, state, level, max_depth, bfs_branch) ==
  LET at == {i \in 1..Len(Directions) :
               /\ Directions[i] \in Options(h, h.gs[state].my_snake)
               /\ MoveValue(h, state, level, max_depth, bfs_branch, Directions[i])
                    = NodeValue(h, state, level, max_depth, bfs_branch)}
  IN Directions[CHOOSE i \in at : \A j \in at : i <= j]

\* what search_move_space returns at a node is the minimax value and its move
Minimax(h, state, level, max_depth, bfs_branch) ==
  LET r == search_move_space(h, NewRun(-1), level, max_depth, state, bfs_branch, search.bfs, <<>>)
  IN /\ r.score = NodeValue(h, state, level, max_depth, bfs_branch)
     /\ r.move = NodeMove(h, state, level, max_depth, bfs_branch)
     /\ r.move \in Options(h, h.gs[state].my_snake)

\* a search from the root has run to its end: to max_depth = search.depth - 1
RoundDone ==
  /\ pc = "deepen"
  /\ search.depth > 1
  /\ heap.sn[heap.gs[game_state].my_snake].alive

\* the moves of both snakes, or of mine alone, at the root
RootMoves ==
  LET gs == heap.gs[game_state]
  IN IF EnemyLives(heap, game_state)
     THEN {<< <<heap.sn[gs.my_snake].color, m>>, <<heap.sn[gs.enemy_snake].color, e>> >> :
             m \in Options(heap, gs.my_snake), e \in Options(heap, gs.enemy_snake)}
     ELSE {<< <<heap.sn[gs.my_snake].color, m>> >> : m \in Options(heap, gs.my_snake)}

\* C27: at a node that is no leaf search_move_space returns the largest, over
\* my moves, of the least value over the enemy's moves (of the value of my
\* move alone when no enemy lives), the moves of a snake being the four
\* directions without the reverse of its direction; the move returned is the
\* first in the order UP, RIGHT, DOWN, LEFT with that value
C27_Minimax ==
  RoundDone =>
     /\ search.best_score = NodeValue(heap, game_state, 0, search.depth - 1, NoBranch)
     /\ search.best_move = NodeMove(heap, game_state, 0, search.depth - 1, NoBranch)
     /\ search.best_move \in Options(heap, heap.gs[game_state].my_snake)
     /\ search.depth > 2 =>
           \A dirs \in RootMoves :
              LET r == advance_game(heap, game_state, dirs)
              IN (~r.uncertainty /\ r.h.sn[r.h.gs[r.new_state].my_snake].alive) =>
                    Minimax(r.h, r.new_state, 1, search.depth - 1,
                            move_bfs_branch(heap, game_state, search.bfs, NoBranch, dirs[1][2]))

\* a search to depth 2 against a live enemy returned a move that is not the
\* first one tried, for a snake that has a direction it cannot reverse
C27_Witness ==
  /\ RoundDone
  /\ search.depth = 3
  /\ EnemyLives(heap, game_state)
  /\ Cardinality(Options(heap, heap.gs[game_state].my_snake)) = 3
  /\ \E i \in 1..Len(Directions) :
        /\ Directions[i] \in Options(heap, heap.gs[game_state].my_snake)
        /\ TupleLess(MoveValue(heap, game_state, 0, 2, NoBranch, Directions[i]), search.best_score)
        /\ \E j \in (i + 1)..Len(Directions) : search.best_move = Directions[j]

\* the advance_game calls of the search that ran last, as (path, uncertainty)
Calls == {search.run.log[i] : i \in 1..Len(search.run.log)}

\* the state the moves of path lead to from the root, as advance_game returns it
RECURSIVE Replay(_, _, _, _)
Replay(h, state, path, i) ==
  IF i = Len(path) THEN advance_game(h, state, path[i])
  ELSE Replay(advance_game(h, state, path[i]).h, advance_game(h, state, path[i]).new_state,
              path, i + 1)

\* the value of the heuristic on the state call leads to, at the depth of the
\* node that made the call
Direct(call) ==
  heuristic(Replay(heap, game_state, call.path, 1).h,
            Replay(heap, game_state, call.path, 1).new_state, search.bfs,
            move_bfs_branch(heap, game_state, search.bfs, NoBranch, call.path[1][1][2]),
            Len(call.path) - 1)

\* C28: when advance_game returns uncertainty = true inside the search, the
\* heuristic judges the state it returned and no advance_game call is made
\* below it; the search goes one level deeper only below the calls that
\* returned uncertainty = false
C28_UncertainIsLeaf ==
  pc \in {"deepen", "decide"} =>
     \A call \in Calls :
        /\ call.uncertainty =>
              /\ \A below \in Calls :
                    ~(/\ Len(below.path) > Len(call.path)
                      /\ SubSeq(below.path, 1, Len(call.path)) = call.path)
              /\ \E i \in 1..Len(search.run.judged) : search.run.judged[i].score = Direct(call)
        /\ Len(call.path) > 1 =>
              [path |-> SubSeq(call.path, 1, Len(call.path) - 1), uncertainty |-> FALSE] \in Calls

\* a search to depth 2 met an uncertain state after the first move and went
\* deeper below another one
C28_Witness ==
  /\ pc = "deepen"
  /\ search.depth = 3
  /\ \E call \in Calls : call.uncertainty /\ Len(call.path) = 1
  /\ \E call \in Calls : Len(call.path) = 2

\* the states the heuristic judged in the search that ran last
JudgedStates == {search.run.judged[i] : i \in 1..Len(search.run.judged)}

\* the game is over in a judged state: a snake is dead or the last frame is reached
GameOver(j) == ~j.me_lives \/ ~j.enemy_lives \/ j.frame_no >= GameFrames

\* C29: game_result, the first component of the heuristic, is +1 when my score
\* is higher than the enemy's and a snake is dead or frame_no >= 8192, -1 when
\* my score is lower under the same condition, and 0 otherwise
C29_GameResult ==
  \A j \in JudgedStates :
     j.score[1] = IF GameOver(j) /\ j.my_score > j.enemy_score THEN 1
                  ELSE IF GameOver(j) /\ j.my_score < j.enemy_score THEN -1
                  ELSE 0

\* the head of my snake in the state next_direction decides on
MyHead == heap.sn[heap.gs[game_state].my_snake].head_pos

\* the BFS entry of the cell that direction d leads to, if it has one
EntryOf(d) ==
  {search.bfs.position_stats[i] : i \in {k \in 1..Len(search.bfs.position_stats) :
      search.bfs.position_stats[k].position = XY(MyHead[1] + d[1], MyHead[2] + d[2])}}

\* (small-partition flag, food_score, partition_size) of a BFS entry
Standing(entry) ==
  << IF entry.partition_size < heap.sn[heap.gs[game_state].my_snake].length THEN -1 ELSE 0,
     entry.food_score, entry.partition_size >>

\* the directions that are not the reverse of my direction and have a BFS
\* entry that none of the others beats
BestByBFS ==
  LET open == {d \in Options(heap, heap.gs[game_state].my_snake) : EntryOf(d) # {}}
  IN {d \in open : \A e \in EntryOf(d) : \A o \in open : \A f \in EntryOf(o) :
                      ~TupleLess(Standing(e), Standing(f))}

\* the directions towards a TAIL cell next to my head
TowardsTail ==
  {d \in {DIR_UP, DIR_RIGHT, DIR_DOWN, DIR_LEFT} :
     world_get(heap, game_state, XY(MyHead[1] + d[1], MyHead[2] + d[2]))[1] = WORLD_TAIL}

\* what the fallback is to answer
FallbackAnswers ==
  IF Len(search.bfs.position_stats) > 0 THEN {Converted(d) : d \in BestByBFS}
  ELSE IF TowardsTail # {} THEN {Converted(d) : d \in TowardsTail}
  ELSE {"None"}

\* C30: when the search yields no move, next_direction answers with the
\* direction, among those that are not the reverse of my direction, whose BFS
\* entry has the best (small-partition flag, food_score, partition_size); with
\* no BFS entries, with a direction towards a TAIL cell next to the head; with
\* none, with no change. The answer is UP, DOWN, LEFT, RIGHT or no change
C30_Fallback ==
  [][(pc = "decide" /\ search.best_move = NoMove) =>
        /\ answer' \in FallbackAnswers
        /\ answer' \in {"UP", "DOWN", "LEFT", "RIGHT", "None"}]_vars

----------------------------------------------------------------------------
(* C31, C32: the BFS of next_direction *)

\* the BFS whose result Explore stored ran until its queue was empty
BfsDone ==
  /\ pc \in {"deepen", "decide"}
  /\ search.bfs = bfs_food_and_partitions(heap, game_state, SizeX * SizeY)

\* the unoccupied cells (VOID or FOOD) of the state next_direction decides on
Free == {p \in Positions : world_get(heap, game_state, p)[1] < WORLD_TAIL}

Touching(p, q) == (p[1] - q[1]) * (p[1] - q[1]) + (p[2] - q[2]) * (p[2] - q[2]) = 1

\* the unoccupied cells connected to the cells of reached through unoccupied cells
RECURSIVE Connected(_)
Connected(reached) ==
  LET more == {p \in Free \ reached : \E q \in reached : Touching(p, q)}
  IN IF more = {} THEN reached ELSE Connected(reached \cup more)

\* the entries of the BFS result
Entries == {search.bfs.position_stats[i] : i \in 1..Len(search.bfs.position_stats)}

\* C31: after a BFS that ran to its end, partition_size of each unoccupied
\* neighbour of my head is the number of unoccupied cells connected to it
\* through unoccupied cells: neighbours in one region report the same size,
\* regions are never merged, every reachable cell is counted once
C31_PartitionSize ==
  BfsDone =>
     /\ {e.position : e \in Entries} = {p \in Free : Touching(p, MyHead)}
     /\ \A e \in Entries : e.partition_size = Cardinality(Connected({e.position}))

\* two unoccupied neighbours of my head lie in one region of more than two cells
C31_Witness ==
  /\ BfsDone
  /\ \E e \in Entries : \E f \in Entries :
        /\ e.position # f.position
        /\ f.position \in Connected({e.position})
        /\ e.partition_size > 2

\* the unoccupied cells at BFS distance d or less from my head
RECURSIVE Within(_)
Within(d) ==
  IF d = 0 THEN {}
  ELSE IF d = 1 THEN {p \in Free : Touching(p, MyHead)}
  ELSE LET nearer == Within(d - 1)
       IN nearer \cup {p \in Free : \E q \in nearer : Touching(p, q)}

\* the distance of the farthest reachable cell
Farthest == CHOOSE d \in 0..(SizeX * SizeY) : Within(d + 1) = Within(d) /\ \A e \in 0..(d - 1) : Within(e + 1) # Within(e)

\* the cells the BFS has visited when the deadline comes after turns turns
VisitedAfter(turns) ==
  BfsLoop(heap, game_state, BfsStart(heap, game_state, initial_positions(heap, game_state)),
          turns).visited_positions

\* the largest distance up to which every reachable cell is visited
Completed(visited) ==
  CHOOSE d \in 0..Farthest : Within(d) \subseteq visited /\ \A e \in (d + 1)..Farthest : ~(Within(e) \subseteq visited)

\* C32: when bfs_food_and_partitions returns, interrupted or not,
\* fully_explored_distance is the largest d such that every reachable cell at
\* BFS distance d or less from my head has been visited; after a BFS that ran
\* to its end it is the distance of the farthest reachable cell
C32_FullyExplored ==
  pc \in {"deepen", "decide"} =>
     \A turns \in 0..(SizeX * SizeY) :
        search.bfs = bfs_food_and_partitions(heap, game_state, turns) =>
           search.bfs.fully_explored_distance = Completed(VisitedAfter(turns))

----------------------------------------------------------------------------
(* The tests of the cell encoding and of the grid text: test_asnake.py *)

\* the characters '0'..'9' as str() writes them and int() reads them
Digits == <<"0", "1", "2", "3", "4", "5", "6", "7", "8", "9">>

\* parse_world: lines are sequences of characters, two for a cell
parse_world(lines) ==
  LET size_x == Len(lines[1]) \div 2
      color(color_char) ==
        IF \E c \in 0..9 : Digits[c + 1] = color_char
        THEN CHOOSE c \in 0..9 : Digits[c + 1] = color_char
        ELSE 0
  IN IF \/ Len(lines[1]) % 2 # 0
        \/ \E y \in 1..Len(lines) : Len(lines[y]) % 2 # 0 \/ Len(lines[y]) # size_x * 2
     THEN [exc |-> "ValueError", rows |-> <<>>, world_size |-> XY(0, 0)]
     ELSE [exc |-> "",
           rows |-> [y \in 1..Len(lines) |->
                       [x \in 1..size_x |-> <<lines[y][2 * x - 1], color(lines[y][2 * x])>>]],
           world_size |-> XY(size_x, Len(lines))]

\* serialize_world: the glyph of the kind, then the color digit or a space
serialize_world(h, state) ==
  LET size == h.gs[state].world_size
      describe(x, y, half) ==
        LET cell == world_get(h, state, XY(x, y))
        IN IF half = 1 THEN REVERSE_CHARS(cell[1])
           ELSE IF cell[2] < 1 \/ cell[2] > 9 THEN " " ELSE Digits[cell[2] + 1]
  IN [y \in 1..size[2] |->
        [i \in 1..(2 * size[1]) |-> describe((i - 1) \div 2, y - 1, 2 - (i % 2))]]

\* the grid texts read: two rows of two cells with every glyph and every color
\* character in every cell, a line of odd length and lines of different lengths
Texts ==
  LET base == << <<"@", "1", " ", " ">>, <<"3", " ", "#", " ">> >>
      text(cell, glyph, color_char) ==
        [base EXCEPT ![((cell - 1) \div 2) + 1][2 * ((cell - 1) % 2) + 1] = glyph,
                     ![((cell - 1) \div 2) + 1][2 * ((cell - 1) % 2) + 2] = color_char]
  IN {text(cell, glyph, Digits[c + 1]) : cell \in 1..4, glyph \in DOMAIN GAME_CHARS, c \in 1..9}
     \cup {text(cell, glyph, " ") : cell \in 1..4, glyph \in DOMAIN GAME_CHARS}
     \cup {<< <<"@", "1", " ">> >>, << <<"@", "1">>, <<"@", "1", " ", " ">> >>}

\* test_decode_encode starts from a (char, color) value of GAME_CHARS.values()
\* and range(8), the round trip of a grid text from its lines
InitText ==
  /\ LET none == [lines |-> <<>>, world_size |-> XY(0, 0), out |-> <<>>,
                  value |-> <<>>, byte |-> -1, decoded |-> <<>>, exc |-> ""]
     IN \/ \E value \in {GAME_CHARS[ch] : ch \in DOMAIN GAME_CHARS} \X (0..7) :
              last = [none EXCEPT !.value = value] /\ pc = "encode"
        \/ \E lines \in Texts : last = [none EXCEPT !.lines = lines] /\ pc = "parse"
  /\ heap = EmptyHeap
  /\ game_state = None
  /\ server = None
  /\ world = <<>>
  /\ old_state = None
  /\ depth = 0
  /\ ticks = 0
  /\ search = NoSearch
  /\ answer = ""

\* GameState._encode_value(value)
Encode ==
  /\ pc = "encode"
  /\ last' = [last EXCEPT !.byte = EncodeValue(last.value)]
  /\ pc' = "decode"
  /\ UNCHANGED <<heap, old_state, game_state, world, server, depth, ticks, search, answer>>

\* GameState._decode_value(byte)
Decode ==
  /\ pc = "decode"
  /\ last' = [last EXCEPT !.decoded = DecodeValue(last.byte)]
  /\ pc' = "done"
  /\ UNCHANGED <<heap, old_state, game_state, world, server, depth, ticks, search, answer>>

\* world, world_size = parse_world(lines)
Parse ==
  /\ pc = "parse"
  /\ LET parsed == parse_world(last.lines)
     IN /\ world' = parsed.rows
        /\ last' = [last EXCEPT !.world_size = parsed.world_size, !.exc = parsed.exc]
        /\ pc' = IF parsed.exc # "" THEN "raised" ELSE "build"
  /\ UNCHANGED <<heap, old_state, game_state, server, depth, ticks, search, answer>>

\* GameState(world, world_size, {}, 0): a bytearray item has to be in range(0, 256)
Build ==
  /\ pc = "build"
  /\ IF Encodable(world, last.world_size)
     THEN LET d == Fresh(DictRefs, DOMAIN heap.dict, 1)
              new == GameStateNew([heap EXCEPT !.dict = d :> <<>> @@ heap.dict],
                                  world, last.world_size, d, 0)
          IN heap' = new.h /\ game_state' = new.ref /\ pc' = "serialize" /\ last' = last
     ELSE /\ last' = [last EXCEPT !.exc = "ValueError"]
          /\ pc' = "raised"
          /\ UNCHANGED <<heap, game_state>>
  /\ UNCHANGED <<old_state, world, server, depth, ticks, search, answer>>

\* serialize_world(state)
Serialize ==
  /\ pc = "serialize"
  /\ last' = [last EXCEPT !.out = serialize_world(heap, game_state)]
  /\ pc' = "done"
  /\ UNCHANGED <<heap, old_state, game_state, world, server, depth, ticks, search, answer>>

NextText == Encode \/ Decode \/ Parse \/ Build \/ Serialize

SpecText == InitText /\ [][NextText]_vars

(* C33, C34: the cell encoding and the grid text *)

\* C33: for every kind of the grid alphabet (0..16) and every color 0..7,
\* decoding the encoded byte kind | (color << 5) gives the same (kind, color)
\* back, the byte lies in 0..255, and no other such pair encodes to that byte
C33_DecodeEncode ==
  /\ (pc = "decode" \/ (pc = "done" /\ last.value # <<>>)) =>
        /\ last.byte \in 0..255
        /\ \A other \in ((0..WORLD_STONE) \X (0..7)) \ {last.value} :
              EncodeValue(other) # last.byte
  /\ pc = "encode" => last.value \in (0..WORLD_STONE) \X (0..7)
  /\ (pc = "done" /\ last.value # <<>>) => last.decoded = last.value

\* a stone of color 7 went through both conversions
C33_Witness ==
  /\ pc = "done"
  /\ last.value = <<WORLD_STONE, 7>>
  /\ last.byte = 240
  /\ last.decoded = <<WORLD_STONE, 7>>

\* rows of equal even width, a known glyph and a digit 1..9 or a space per cell
WellFormed(lines) ==
  /\ Len(lines) > 0
  /\ \A y \in 1..Len(lines) :
        /\ Len(lines[y]) % 2 = 0
        /\ Len(lines[y]) = Len(lines[1])
        /\ \A x \in 1..(Len(lines[y]) \div 2) :
              /\ lines[y][2 * x - 1] \in DOMAIN GAME_CHARS
              /\ lines[y][2 * x] \in {" "} \cup {Digits[c + 1] : c \in 1..9}

\* C34: for any well-formed grid text, parsing it, building a GameState from
\* the result and serializing that state gives exactly the original lines
C34_RoundTrip ==
  (last.lines # <<>> /\ WellFormed(last.lines)) =>
     /\ pc # "raised"
     /\ pc = "done" => last.out = last.lines

----------------------------------------------------------------------------
(* The Observer on the frame the Transition predicted *)

\* observe_state_changes(S, world, my_color) with the world that shows the state
\* advance_game(S, snake_directions) returned; server keeps the predicted state
ObserveStep ==
  /\ pc = "call"
  /\ last.op = "advance_game"
  /\ last.exc = ""
  /\ \E r \in {observe_state_changes(heap, last.state, Snapshot(heap, last.new_state),
                                     WorldSize, my_color)} :
        /\ last' = [last EXCEPT !.op = "observe_state_changes", !.new_state = r.new_state,
                                !.exc = r.exc]
        /\ heap' = Collect(r.h, {game_state, last.state, last.new_state, r.new_state})
  /\ server' = last.new_state
  /\ world' = Snapshot(heap, last.new_state)
  /\ pc' = "observed"
  /\ UNCHANGED <<old_state, game_state, depth, ticks, search, answer>>

NextAgree == CallStep \/ ObserveStep

SpecAgree == InitCall /\ [][NextAgree]_vars

(* C35: Observer and Transition *)

\* the fields of a snake record the Observer and the Transition both keep
Kept(snake) ==
  [color |-> snake.color, head_pos |-> snake.head_pos, tail_pos |-> snake.tail_pos,
   length |-> snake.length, head_history |-> snake.head_history, grow |-> snake.grow,
   score |-> snake.score, grow_uncertain |-> snake.grow_uncertain]

\* the records of the live snakes of a state
KeptOf(h, state) ==
  LET items == h.dict[h.gs[state].snakes_by_color]
  IN {Kept(h.sn[items[i][2]]) : i \in {j \in 1..Len(items) : h.sn[items[j][2]].alive}}

\* the Observer ran on the frame of a prediction that is certain, in which no
\* snake dies and no kill is credited
Agreeable ==
  /\ pc = "observed"
  /\ ~last.uncertainty
  /\ last.dies = {}
  /\ \A killer_color \in DOMAIN last.kills : last.kills[killer_color] = <<>>

\* snake_directions names every live snake of S
EveryoneMoves ==
  {last.directions[i][1] : i \in 1..Len(last.directions)}
     = {last.pre.snakes[i].color : i \in {j \in 1..Len(last.pre.snakes) : last.pre.snakes[j].alive}}

\* the Observer and the prediction have the same records and the same frame_no
Agreeing ==
  /\ last.exc = ""
  /\ KeptOf(heap, last.new_state) = KeptOf(heap, server)
  /\ heap.gs[last.new_state].frame_no = heap.gs[server].frame_no

\* C35 as stated: if advance_game(S, moves) returns uncertainty = false, no
\* snake dies and no kill is credited, and the next frame shows the predicted
\* grid, then the Observer applied to S and that frame gives every surviving
\* snake the head_pos, tail_pos, length, head_history, grow, score and
\* grow_uncertain of the predicted state, and the same frame_no
C35_AgreeAsStated == Agreeable => Agreeing

\* C35, amended: the same, for moves that give every live snake of S a direction
C35_ObserverAgrees == (Agreeable /\ EveryoneMoves) => Agreeing

\* two snakes moved, one of them onto food, and the Observer agrees
C35_Witness ==
  /\ Agreeable
  /\ EveryoneMoves
  /\ Len(last.directions) = 2
  /\ \E i \in 1..Len(last.pre.snakes) : \E k \in KeptOf(heap, server) :
        /\ k.color = last.pre.snakes[i].color
        /\ k.score > last.pre.snakes[i].score
        /\ k.grow > 0
  /\ Agreeing


(* C36: advance_game and exceptions *)

\* C36: advance_game returns a new state without raising for every state that
\* satisfies the data-model invariants and every direction map over its live
\* snakes, for snakes of every length >= 2 with complete head_history, growing
\* or not
C36_NeverRaises ==
  (/\ last.op = "advance_game"
   /\ DataModel(Pre)
   /\ Acting \subseteq Alive(Pre)
   /\ \A c \in Alive(Pre) : Rec(Pre, c).length >= 2 /\ Complete(Rec(Pre, c)))
  => last.exc = ""


(* C37: the order of the direction map *)

\* the call of advance_game on the same state with the same directions, the
\* colors in the other order
Swapped == advance_game(heap, last.state, <<last.directions[2], last.directions[1]>>)

\* C37: the result of advance_game does not depend on the order in which the
\* colors appear in the direction map: two maps with the same directions for
\* the same colors give equal grids, snake records and uncertainty bits, also
\* when one snake moves into its own tail and the other one heads for that cell
C37_OrderIndependent ==
  (last.op = "advance_game" /\ Len(last.directions) = 2) =>
     /\ Swapped.exc = last.exc
     /\ last.exc = "" =>
           /\ Swapped.uncertainty = last.uncertainty
           /\ View(Swapped.h, Swapped.new_state).world = Post.world
           /\ View(Swapped.h, Swapped.new_state).snakes = Post.snakes


(* C38: what is known for certain stays known *)

\* every snake record of S has its whole head_history and a certain growth
Certain(v) == \A c \in Known(v) : Complete(Rec(v, c))

\* C38: if every snake of S has |head_history| = length - 1 and grow_uncertain
\* = false, then so has every snake of the state advance_game(S, moves)
\* returns: the snakes that moved, grew, died with or without their move
\* applied, and those that did not act
C38_CertaintyPersists ==
  (Returned /\ Certain(Pre)) => Certain(Post)

\* of two snakes known for certain one grew and survived, the other died
C38_Witness ==
  /\ Returned /\ Certain(Pre) /\ Certain(Post)
  /\ \E c \in Alive(Post) : Rec(Post, c).length = Rec(Pre, c).length + 1
  /\ \E c \in Alive(Pre) \ Alive(Post) : TRUE


(* C39: the Observer and the records of the old state *)

\* observe_state_changes returned a state built on an old state
Reobserved == last.op = "observe_state_changes" /\ last.exc = "" /\ last.state # None

\* C39: the Observer does not copy snake records: for every color known before,
\* the record in the returned state is the record of the old state, updated in
\* place, so that after observe_state_changes the snake fields reached from
\* old_state are those of the new state (the decrement of grow included), while
\* the grid bytes and the frame_no of old_state are as they were
C39_InPlace ==
  Reobserved =>
     /\ heap.gs[last.new_state].snakes_by_color = heap.gs[last.state].snakes_by_color
     /\ \A color \in Known(last.pre) :
           SnakeRef(heap, last.new_state, color) = SnakeRef(heap, last.state, color)
     /\ View(heap, last.state).snakes = View(heap, last.new_state).snakes
     /\ View(heap, last.state).world = last.pre.world
     /\ View(heap, last.state).frame_no = last.pre.frame_no
     /\ heap.gs[last.new_state].world # heap.gs[last.state].world

\* the record reached from old_state shows a head that moved and a grow that
\* was decreased, on a grid that still shows the old frame
C39_Witness ==
  /\ Reobserved
  /\ \E color \in Known(last.pre) :
        /\ Rec(View(heap, last.state), color).head_pos # Rec(last.pre, color).head_pos
        /\ Rec(View(heap, last.state), color).grow < Rec(last.pre, color).grow
        /\ CellAt(View(heap, last.state), Rec(last.pre, color).head_pos) = <<WORLD_HEAD, color>>
        /\ SnakeRef(heap, last.new_state, color) = SnakeRef(heap, last.state, color)


----------------------------------------------------------------------------
(* trace_snake_path on grids of every shape *)

\* the grids traced: every set of cells of the 3x3 block at the left holds
\* segments of color 1 (HEAD, BODY or TAIL by position), the cell (3, 1) a
\* segment of color 2; start_pos is any cell of the grid
InitTrace ==
  /\ \E filled \in SUBSET {XY(x, y) : x \in 0..2, y \in 0..2} : \E start_pos \in Positions :
        LET glyph(p) == <<"@", "*", "$">>[((p[1] + p[2]) % 3) + 1]
            cells == Rows({<<p, glyph(p), 1>> : p \in filled} \cup {<<XY(3, 1), "*", 2>>})
            d == Fresh(DictRefs, {}, 1)
            new == GameStateNew([EmptyHeap EXCEPT !.dict = d :> <<>>], cells, WorldSize, d, 0)
        IN /\ heap = new.h
           /\ game_state = new.ref
           /\ last = [op |-> "trace_snake_path", start_pos |-> start_pos,
                      segments |-> <<start_pos>>]
  /\ pc = "trace"
  /\ server = None
  /\ world = <<>>
  /\ old_state = None
  /\ depth = 0
  /\ ticks = 0
  /\ search = NoSearch
  /\ answer = ""

\* one turn of "while True" in trace_snake_path: break, or append paths[0]
Trace ==
  /\ pc = "trace"
  /\ Len(last.segments) <= SizeX * SizeY
  /\ LET paths == TracePaths(heap, game_state, last.segments,
                             world_get(heap, game_state, last.start_pos)[2])
     IN IF Len(paths) # 1
        THEN pc' = "traced" /\ last' = last
        ELSE pc' = pc /\ last' = [last EXCEPT !.segments = Append(@, paths[1])]
  /\ UNCHANGED <<heap, old_state, game_state, world, server, depth, ticks, search, answer>>

SpecTrace == InitTrace /\ [][Trace]_vars

(* C40: trace_snake_path *)

\* the color of the start cell
TraceColor == world_get(heap, game_state, last.start_pos)[2]

\* C40: trace_snake_path terminates on every grid and start position: its
\* sequence never holds a cell twice, so that it has at most as many cells as
\* the grid when the loop ends; the sequence returned starts at the start
\* position and every consecutive pair is a pair of 4-neighbours whose cells
\* are HEAD, BODY or TAIL of the color of the start cell
C40_Trace ==
  /\ last.segments[1] = last.start_pos
  /\ \A i \in 1..Len(last.segments) : \A j \in 1..Len(last.segments) :
        i # j => last.segments[i] # last.segments[j]
  /\ Len(last.segments) <= SizeX * SizeY
  /\ \A i \in 1..(Len(last.segments) - 1) :
        /\ Touching(last.segments[i], last.segments[i + 1])
        /\ IsSegment(world_get(heap, game_state, last.segments[i]), TraceColor)
        /\ IsSegment(world_get(heap, game_state, last.segments[i + 1]), TraceColor)
  /\ pc = "traced" => last.segments = trace_snake_path(heap, game_state, last.start_pos)

\* the trace went along a stem of three cells and stopped where two ways go on
C40_Witness ==
  /\ pc = "traced"
  /\ Len(last.segments) >= 3
  /\ Len(TracePaths(heap, game_state, last.segments, TraceColor)) = 2

====
